---- MODULE Spec2Model ----
(***************************************************************************)
(* A model of pdsc: the ingestion driver (pdsc/ingest.py), the segment     *)
(* geometry and the segment tree (pdsc/segment.py) and the local query     *)
(* client (pdsc/client.py).                                                *)
(*                                                                         *)
(* Representation of numbers.  A point of the sphere is held as an integer *)
(* vector <<x, y, z>> that is a positive multiple of its unit vector       *)
(* latlon2unit(lat, lon); the vertices of segments are drawn from the      *)
(* lattice points of squared norm 9, so that the mean of the unit vectors  *)
(* of a segment is a positive multiple of the integer sum of its vertices. *)
(* Signs of dot and cross products are then exact.  Angles are held in     *)
(* whole degrees, rounded up, and a length is the body radius times such   *)
(* an angle.                                                               *)
(***************************************************************************)
EXTENDS Integers, Sequences, FiniteSets, TLC

VARIABLES
    fs,       \* the database directory: instrument -> its three artifacts
    ingest,   \* the ingest_idx run in progress: position, inputs, locals
    hist,     \* the last ingest_idx run that returned: inputs, outcome, files
    client,   \* the PdsClient: constructed or not, its dictionaries
    call      \* the last call made and what it returned or raised

vars == <<fs, ingest, hist, client, call>>

(***************************************************************************)
(* Small helpers for sets, sequences and numbers.                          *)
(***************************************************************************)
Abs(n) == IF n < 0 THEN -n ELSE n

SetMax(S) == CHOOSE m \in S : \A n \in S : n <= m

SetMin(S) == CHOOSE m \in S : \A n \in S : m <= n

Range(s) == {s[i] : i \in 1..Len(s)}

RECURSIVE Gcd(_, _)
Gcd(a, b) == IF b = 0 THEN a ELSE Gcd(b, a % b)

\* All sequences over S of length at most n.
SeqsUpTo(S, n) == UNION {[1..k -> S] : k \in 0..n}

(***************************************************************************)
(* Vectors (numpy arrays of three numbers).                                *)
(***************************************************************************)
Zero3 == <<0, 0, 0>>

dot(a, b) == a[1] * b[1] + a[2] * b[2] + a[3] * b[3]

cross(a, b) == <<a[2] * b[3] - a[3] * b[2],
                 a[3] * b[1] - a[1] * b[3],
                 a[1] * b[2] - a[2] * b[1]>>

vadd(a, b) == <<a[1] + b[1], a[2] + b[2], a[3] + b[3]>>

vscale(k, a) == <<k * a[1], k * a[2], k * a[3]>>

vsub(a, b) == vadd(a, vscale(-1, b))

\* The same direction with the common factor of the components removed.
Reduce(a) ==
    LET g == Gcd(Gcd(Abs(a[1]), Abs(a[2])), Abs(a[3]))
    IN  IF g = 0 THEN a ELSE <<a[1] \div g, a[2] \div g, a[3] \div g>>

(***************************************************************************)
(* localization.py: sphere math.                                           *)
(***************************************************************************)
MARS_RADIUS_M == 3396200

\* cos^2 of 0, 1, ..., 90 degrees in units of 1 / AngleScale.
AngleScale == 100000

CosSq ==
    <<100000, 99970, 99878, 99726, 99513, 99240, 98907, 98515, 98063,
       97553, 96985, 96359, 95677, 94940, 94147, 93301, 92402, 91452,
       90451, 89401, 88302, 87157, 85967, 84733, 83457, 82139, 80783,
       79389, 77960, 76496, 75000, 73474, 71919, 70337, 68730, 67101,
       65451, 63782, 62096, 60396, 58682, 56959, 55226, 53488, 51745,
       50000, 48255, 46512, 44774, 43041, 41318, 39604, 37904, 36218,
       34549, 32899, 31270, 29663, 28081, 26526, 25000, 23504, 22040,
       20611, 19217, 17861, 16543, 15267, 14033, 12843, 11698, 10599,
       9549, 8548, 7598, 6699, 5853, 5060, 4323, 3641, 3015, 2447,
       1937, 1485, 1093, 760, 487, 274, 122, 30, 0>>

\* The haversine (great-circle) angle between two nonzero vectors, in whole
\* degrees rounded up: the least d with cos(d) <= cos(angle).  Rounding up
\* keeps the triangle inequality of the angle.
haversine(a, b) ==
    LET ra == Reduce(a)
        rb == Reduce(b)
        d  == dot(ra, rb)
        c2 == (d * d * AngleScale) \div (dot(ra, ra) * dot(rb, rb))
    IN  IF d >= 0
        THEN SetMin({k \in 0..90 : CosSq[k + 1] <= c2})
        ELSE 180 - SetMax({k \in 0..90 : CosSq[k + 1] >= c2})

\* geodesic_distance(latlon1, latlon2, radius): radius * haversine.
geodesic_distance(a, b, radius) == radius * haversine(a, b)

\* xyz2latlon(xyz) raises ValueError for the zero vector; otherwise the point
\* of the sphere in the direction of xyz.
xyz2latlon_raises(xyz) == xyz = Zero3

(***************************************************************************)
(* segment.py: PointQuery.                                                 *)
(***************************************************************************)
\* A latitude outside [-90, 90] has no point of the sphere.
LatOutOfRange == "lat_out_of_range"

\* PointQuery.__init__(lat, lon, radius): the error it raises, or "none".
PointQuery_raises(latlon, radius) ==
    IF radius < 0 THEN "ValueError"
    ELSE IF latlon = LatOutOfRange THEN "ValueError"
    ELSE "none"

PointQuery(latlon, radius) == [xyz |-> latlon, radius |-> radius]

(***************************************************************************)
(* segment.py: TriSegment.  A segment is its latlon_points: <<v0, v1, v2>>. *)
(***************************************************************************)
TriSegment(latlon0, latlon1, latlon2) == <<latlon0, latlon1, latlon2>>

\* np.average(self.xyz_points, axis=0), times a positive factor.
xyz_center(s) == vadd(vadd(s[1], s[2]), s[3])

\* center() raises ValueError when the mean of the vertices is the zero vector.
center_raises(s) == xyz2latlon_raises(xyz_center(s))

center(s) == xyz_center(s)

\* The maximum distance from the center to any vertex.
radius(s) ==
    SetMax({geodesic_distance(center(s), s[i], MARS_RADIUS_M) : i \in 1..3})

\* np.cross(xyz, [xyz[1], xyz[2], xyz[0]]) before the division by the norms.
raw_normals(s) == <<cross(s[1], s[2]), cross(s[2], s[3]), cross(s[3], s[1])>>

\* Row i of normals is NaN when the cross product is zero (0 / 0).
normal_is_nan(s, i) == raw_normals(s)[i] = Zero3

\* A variant of is_inside that has the zero vector outside every segment.
is_inside_nonzero(s, xyz) ==
    /\ xyz # Zero3
    /\ \A i \in 1..3 :
           /\ raw_normals(s)[i] # Zero3
           /\ dot(raw_normals(s)[i], xyz) >= 0

\* np.all(np.dot(self.normals, xyz) >= -INCLUSION_EPSILON).  A comparison with
\* NaN is false.  The dot product of integer vectors with a normal is zero or
\* far above 1e-10 in size, so the test is on the sign.
is_inside(s, xyz) ==
    \A i \in 1..3 :
        /\ ~normal_is_nan(s, i)
        /\ dot(raw_normals(s)[i], xyz) >= 0

\* xyz - normal_i * (normal_i . xyz), times |raw normal_i|^2.
projection(s, i, xyz) ==
    LET n == raw_normals(s)[i]
    IN  Reduce(vsub(vscale(dot(n, n), xyz), vscale(dot(n, xyz), n)))

\* The points whose distance to xyz is taken: the vertices, and the
\* projections with a nonzero component sum that are inside the segment.
points_to_check(s, xyz) ==
    {s[i] : i \in 1..3}
    \cup {projection(s, i, xyz) : i \in
            {j \in 1..3 :
                /\ ~normal_is_nan(s, j)
                /\ projection(s, j, xyz)[1] + projection(s, j, xyz)[2]
                     + projection(s, j, xyz)[3] # 0
                /\ is_inside(s, projection(s, j, xyz))}}

\* A variant of distance_to_point without the early return for a point that
\* is inside.
distance_to_point_measured(s, xyz) ==
    IF xyz = Zero3 THEN 0
    ELSE SetMin({geodesic_distance(xyz, p, MARS_RADIUS_M) :
                    p \in points_to_check(s, xyz)})

distance_to_point(s, xyz) ==
    IF is_inside(s, xyz) THEN 0
    ELSE SetMin({geodesic_distance(xyz, p, MARS_RADIUS_M) :
                    p \in points_to_check(s, xyz)})

\* distance_to_point reaches xyz2latlon(xyz) when xyz is not inside; the
\* projections it converts have a nonzero component sum.
distance_to_point_raises(s, xyz) ==
    IF ~is_inside(s, xyz) /\ xyz2latlon_raises(xyz) THEN "ValueError"
    ELSE "none"

includes_point(s, point_query) ==
    IF point_query.radius = 0
    THEN is_inside(s, point_query.xyz)
    ELSE distance_to_point(s, point_query.xyz) <= point_query.radius

\* The two vectors spanning the plane tangent at the center, each times a
\* positive factor.
projection_plane(s) ==
    LET normal == center(s)
        idx == SetMin({i \in 1..3 :
                   \A j \in 1..3 : Abs(normal[i]) <= Abs(normal[j])})
        I == <<<<1, 0, 0>>, <<0, 1, 0>>, <<0, 0, 1>>>>
        u == cross(I[idx], normal)
        v == cross(u, normal)
    IN  <<u, v>>

\* np.dot(xyz_points, plane.T): the three vertices in the plane's coordinates.
project(s, plane) ==
    [i \in 1..3 |-> <<dot(s[i], plane[1]), dot(s[i], plane[2])>>]

\* Polygon: twice the signed area of a planar triangle.
Area2(P) ==
    (P[2][1] - P[1][1]) * (P[3][2] - P[1][2])
    - (P[2][2] - P[1][2]) * (P[3][1] - P[1][1])

\* The triangle with its vertices in counterclockwise order.
Oriented(P) == IF Area2(P) < 0 THEN <<P[1], P[3], P[2]>> ELSE P

\* An edge of the counterclockwise triangle P has all of Q on its outer side.
Separates(P, Q) ==
    \E i \in 1..3 :
        LET a == P[i]
            b == P[(i % 3) + 1]
        IN  \A j \in 1..3 :
                (b[1] - a[1]) * (Q[j][2] - a[2])
                - (b[2] - a[2]) * (Q[j][1] - a[1]) <= 0

\* (p_self & p_other).area() > 0 for two planar triangles.
PolygonsOverlap(P, Q) ==
    /\ Area2(P) # 0
    /\ Area2(Q) # 0
    /\ ~Separates(Oriented(P), Oriented(Q))
    /\ ~Separates(Oriented(Q), Oriented(P))

overlaps_segment(s, other) ==
    PolygonsOverlap(project(s, projection_plane(s)),
                    project(other, projection_plane(s)))

(***************************************************************************)
(* segment.py: SegmentTree.  The ball tree is held as the list of centers  *)
(* it was built from; a segment id is a position in that list, from 0.     *)
(***************************************************************************)
\* SegmentTree.__init__(segments): the error it raises, or "none".  np.max of
\* an empty list raises ValueError, as does the center of a segment whose
\* vertices sum to the zero vector.
SegmentTree_raises(segments) ==
    IF \E i \in 1..Len(segments) : center_raises(segments[i]) THEN "ValueError"
    ELSE IF segments = <<>> THEN "ValueError"
    ELSE "none"

\* A variant of SegmentTree.__init__ that keeps the smallest radius.
tree_min_radius(segments) ==
    SetMin({radius(segments[i]) : i \in 1..Len(segments)})

tree_max_radius(segments) ==
    SetMax({radius(segments[i]) : i \in 1..Len(segments)})

SegmentTree(segments) ==
    [data |-> [i \in 1..Len(segments) |-> center(segments[i])],
     max_radius |-> tree_max_radius(segments)]

\* A variant of BallTree.query_radius with a strict comparison.
query_radius_strict(data, X, total_radius) ==
    LET haversine_radius == total_radius \div MARS_RADIUS_M
    IN  {i - 1 : i \in {j \in 1..Len(data) :
                            haversine(data[j], X) < haversine_radius}}

\* BallTree.query_radius(X, r), count_only=False: the positions (from 0) of the points of data
\* within haversine angle r of X.
query_radius(data, X, total_radius) ==
    LET haversine_radius == total_radius \div MARS_RADIUS_M
    IN  {i - 1 : i \in {j \in 1..Len(data) :
                            haversine(data[j], X) <= haversine_radius}}

query_point(tree, point) ==
    query_radius(tree.data, point.xyz, point.radius + tree.max_radius)

query_segment(tree, segment) ==
    query_radius(tree.data, center(segment), radius(segment) + tree.max_radius)

(***************************************************************************)
(* segment.py: TriSegmentedFootprint.  A localizer is held as what it      *)
(* does for the record: the error its construction or its pixel_to_latlon  *)
(* raises, its flight_direction, and the latlon_grid it yields.            *)
(***************************************************************************)
\* The instruments with a registered localizer.
LOCALIZERS == {"ctx", "themis_vis", "themis_ir", "hirise_edr", "hirise_rdr", "moc"}

\* get_localizer(metadata): IndexError for an instrument without a localizer.
get_localizer_raises(m) ==
    IF m.instrument \notin LOCALIZERS THEN "IndexError" ELSE m.localizer.raises

\* TriSegmentedFootprint._segment: two triangles per cell of the grid L, the
\* outer loop over the second index of L, the inner over the first.
footprint_segments(L, flight_direction) ==
    LET n0 == Len(L) - 1
        n1 == Len(L[1]) - 1
    IN  [j \in 1..(2 * n0 * n1) |->
            LET k == (j - 1) \div 2
                c == (k \div n0) + 1
                r == (k % n0) + 1
            IN  IF flight_direction > 0
                THEN IF j % 2 = 1
                     THEN TriSegment(L[r][c], L[r][c + 1], L[r + 1][c])
                     ELSE TriSegment(L[r + 1][c + 1], L[r + 1][c], L[r][c + 1])
                ELSE IF j % 2 = 1
                     THEN TriSegment(L[r][c], L[r + 1][c], L[r][c + 1])
                     ELSE TriSegment(L[r + 1][c + 1], L[r][c + 1], L[r + 1][c])]

\* TriSegmentedFootprint(m, resolution, localizer_kwargs[, body_radius]): the
\* error the construction raises, or "none".  __init__ takes three arguments
\* besides self, so a fourth raises TypeError before anything else runs.
TriSegmentedFootprint_raises(m, extra_argument) ==
    IF extra_argument THEN "TypeError" ELSE get_localizer_raises(m)

TriSegmentedFootprint(m) ==
    [metadata |-> m,
     segments |-> footprint_segments(m.localizer.latlon_grid,
                                     m.localizer.flight_direction)]

(***************************************************************************)
(* ingest.py.                                                              *)
(***************************************************************************)
MOON_RADIUS_M == 1736000

\* The value of a record that has no observation_id attribute.
NoObservationId == "<no observation_id>"

hasattr_observation_id(m) == m.observation_id # NoObservationId

\* ingest_idx: the Moon's radius for an instrument whose name holds 'lroc',
\* which of the instruments drawn is lroc_nac.
body_radius_of(instrument) ==
    IF instrument \in {"lroc_nac"} THEN MOON_RADIUS_M ELSE MARS_RADIUS_M

\* A variant of the except clause that catches ValueError alone.
CaughtOnlyValueError == {"ValueError"}

\* The errors store_segments catches around one record.
CaughtInLoop == {"TypeError", "ValueError"}

\* The inner loop of store_segments over the segments of one footprint, from
\* its k-th segment: a segment is appended before the record is looked at for
\* an observation_id, and a record without one raises ValueError.
RECURSIVE append_segments(_, _, _)
append_segments(s, k, acc) ==
    IF k > Len(s.segments) THEN acc
    ELSE LET with_segment == [acc EXCEPT !.segments = Append(@, s.segments[k])]
         IN  IF hasattr_observation_id(s.metadata)
             THEN append_segments(s, k + 1,
                      [with_segment EXCEPT !.observation_ids =
                          Append(@, s.metadata.observation_id)])
             ELSE [with_segment EXCEPT !.raises = "ValueError"]

\* The loop of store_segments over the records, from the i-th: the two lists
\* it has built, and the error that left it ("none" when it ran to the end).
RECURSIVE segment_loop(_, _, _, _)
segment_loop(metadata, i, body_radius, acc) ==
    IF i > Len(metadata) THEN acc
    ELSE LET m == metadata[i]
             raised == TriSegmentedFootprint_raises(
                           m, body_radius # MARS_RADIUS_M)
             body == IF raised # "none"
                     THEN [acc EXCEPT !.raises = raised]
                     ELSE append_segments(TriSegmentedFootprint(m), 1, acc)
         IN  IF body.raises = "none"
             THEN segment_loop(metadata, i + 1, body_radius, body)
             ELSE IF body.raises \in CaughtInLoop
             THEN segment_loop(metadata, i + 1, body_radius,
                               [body EXCEPT !.raises = "none"])
             ELSE body

segment_records(metadata, body_radius) ==
    segment_loop(metadata, 1, body_radius,
                 [observation_ids |-> <<>>, segments |-> <<>>, raises |-> "none"])

\* A variant of segment_generator that counts from 1: enumerate(..., 1).
segment_rows_from_one(observation_ids, segments) ==
    LET n == IF Len(observation_ids) < Len(segments)
             THEN Len(observation_ids) ELSE Len(segments)
    IN  [i \in 1..n |-> <<i, observation_ids[i], segments[i]>>]

\* segment_generator: enumerate(zip(observation_ids, segments)); a row is
\* <<segment_id, observation_id, the segment's six coordinates>>.
segment_rows(observation_ids, segments) ==
    LET n == IF Len(observation_ids) < Len(segments)
             THEN Len(observation_ids) ELSE Len(segments)
    IN  [i \in 1..n |-> <<i - 1, observation_ids[i], segments[i]>>]

(***************************************************************************)
(* Files.  A file is absent, a sqlite database or a pickled tree.          *)
(***************************************************************************)
Absent == [kind |-> "absent"]

\* os.path.exists
FileExists(f) == f.kind # "absent"

\* sqlite3.connect on a path with no file creates an empty database.
EmptyDb == [kind |-> "db", table |-> FALSE, committed |-> FALSE, rows |-> <<>>]

\* CREATE TABLE, which sqlite runs outside a transaction.
create_table(db) == [db EXCEPT !.table = TRUE]

\* A variant of the INSERT whose transaction is left open.
insert_uncommitted(db, rows) == [db EXCEPT !.rows = @ \o rows]

\* executemany INSERT and the commit at the end of the with block.
insert_rows(db, rows) == [db EXCEPT !.rows = @ \o rows, !.committed = TRUE]

\* open(outputfile, 'wb+'): the file exists and is empty.
TruncatedPkl == [kind |-> "pkl", complete |-> FALSE, tree |-> <<>>]

\* pickle.dump(self, f) and the close of the file.
dumped_pkl(tree) == [kind |-> "pkl", complete |-> TRUE, tree |-> tree]

\* A reader finds an artifact whole: a committed database or a whole pickle.
Complete(f) ==
    \/ f.kind = "db" /\ f.table /\ f.committed
    \/ f.kind = "pkl" /\ f.complete

(***************************************************************************)
(* The inputs the model draws.                                             *)
(***************************************************************************)
\* The longest cumulative index (list of records) an ingest run is given.
MaxRecords == 2

\* ctx has a localizer and is on Mars; lroc_nac is on the Moon; mro_ext is an
\* instrument an extension has given a table but no localizer.
Instruments == {"ctx", "lroc_nac", "mro_ext"}

\* The observation ids, in lexicographic order.
ObservationIds == <<"ESP_1", "PSP_2", "PSP_3">>

\* A footprint near the direction (1, 1, 1): one cell, flown top down.
GridNear == <<<< <<3, 0, 0>>, <<2, 2, 1>> >>, << <<2, 1, 2>>, <<1, 2, 2>> >>>>

\* The mirror image of GridNear in the plane y = 0, flown bottom up; the two
\* footprints meet in the point (3, 0, 0).
GridNext == <<<< <<3, 0, 0>>, <<2, -2, 1>> >>, << <<2, -1, 2>>, <<1, -2, 2>> >>>>

\* The footprint opposite to GridNear, flown bottom up.
GridFar ==
    <<<< <<-3, 0, 0>>, <<-2, -2, -1>> >>, << <<-2, -1, -2>>, <<-1, -2, -2>> >>>>

\* A footprint of two octants of the sphere.
GridWide == <<<< <<3, 0, 0>>, <<0, 3, 0>> >>, << <<0, 0, 3>>, <<-3, 0, 0>> >>>>

NoGrid == <<>>

Localizer(raises, flight_direction, latlon_grid) ==
    [raises |-> raises, flight_direction |-> flight_direction,
     latlon_grid |-> latlon_grid]

PdsMetadata(instrument, observation_id, localizer) ==
    [instrument |-> instrument, observation_id |-> observation_id,
     localizer |-> localizer]

\* The records of an instrument's cumulative index: two observations that
\* segment, one without an observation_id, and one whose localizer raises.
Records(instrument) ==
    {PdsMetadata(instrument, ObservationIds[1], Localizer("none", 1, GridNear)),
     PdsMetadata(instrument, ObservationIds[2], Localizer("none", -1, GridNext)),
     PdsMetadata(instrument, NoObservationId, Localizer("none", 1, GridWide)),
     PdsMetadata(instrument, ObservationIds[3], Localizer("ValueError", 1, NoGrid))}

Tables(instrument) == SeqsUpTo(Records(instrument), MaxRecords)

(***************************************************************************)
(* ingest_idx as a process: one step per file operation.                   *)
(***************************************************************************)
NoTree == <<>>

IdleIngest(instrument) ==
    [pc |-> "idle", instrument |-> instrument, table |-> <<>>,
     body_radius |-> body_radius_of(instrument), metadata |-> <<>>,
     observation_ids |-> <<>>, segments |-> <<>>, raises |-> "none",
     where |-> "none",
     before |-> [metadata |-> Absent, segments |-> Absent, tree |-> Absent]]

NoHist == [valid |-> FALSE, table |-> <<>>, raises |-> "none",
           after |-> [metadata |-> Absent, segments |-> Absent, tree |-> Absent]]

NoClient == [state |-> "none"]

NoCall == [op |-> "none"]

\* The artifacts of the instrument the run is on.
dir == fs[ingest.instrument]

SetFile(artifact, f) ==
    fs' = [fs EXCEPT ![ingest.instrument][artifact] = f]

GoTo(pc) == ingest' = [ingest EXCEPT !.pc = pc]

\* An error leaves the function `where` and, uncaught, ingest_idx.
Raise(error, where) ==
    ingest' = [ingest EXCEPT !.pc = "raised", !.raises = error, !.where = where]

\* ingest_idx is called with a parsed cumulative index.
ingest_idx_start ==
    /\ ingest.pc = "idle"
    /\ \E table \in Tables(ingest.instrument) :
           ingest' = [IdleIngest(ingest.instrument) EXCEPT
                         !.pc = "sm_remove", !.table = table, !.before = dir]
    /\ UNCHANGED <<fs, hist, client, call>>

\* A variant of store_metadata and store_segments without the os.remove.
remove_never(artifact) == UNCHANGED fs

\* if os.path.exists(outputfile): os.remove(outputfile)
remove_if_exists(artifact) ==
    IF FileExists(dir[artifact]) THEN SetFile(artifact, Absent)
    ELSE UNCHANGED fs

\* sqlite3.connect and CREATE TABLE: OperationalError if the table exists.
connect_and_create(artifact, where, next_pc) ==
    LET db == IF dir[artifact].kind = "db" THEN dir[artifact] ELSE EmptyDb
    IN  IF db.table
        THEN Raise("OperationalError", where) /\ UNCHANGED fs
        ELSE SetFile(artifact, create_table(db)) /\ GoTo(next_pc)

store_metadata_remove ==
    /\ ingest.pc = "sm_remove"
    /\ remove_if_exists("metadata")
    /\ GoTo("sm_create")
    /\ UNCHANGED <<hist, client, call>>

store_metadata_create ==
    /\ ingest.pc = "sm_create"
    /\ connect_and_create("metadata", "store_metadata", "sm_insert")
    /\ UNCHANGED <<hist, client, call>>

\* INSERT INTO metadata, SELECT * back into PdsMetadata objects, commit.
store_metadata_insert ==
    /\ ingest.pc = "sm_insert"
    /\ SetFile("metadata", insert_rows(dir.metadata, ingest.table))
    /\ ingest' = [ingest EXCEPT !.pc = "ss_loop", !.metadata = ingest.table]
    /\ UNCHANGED <<hist, client, call>>

\* The loop of store_segments over the records.
store_segments_loop ==
    /\ ingest.pc = "ss_loop"
    /\ LET out == segment_records(ingest.metadata, ingest.body_radius)
       IN  ingest' = [ingest EXCEPT
                         !.observation_ids = out.observation_ids,
                         !.segments = out.segments,
                         !.raises = out.raises,
                         !.where = IF out.raises = "none" THEN "none"
                                   ELSE "store_segments",
                         !.pc = IF out.raises = "none" THEN "ss_remove"
                                ELSE "raised"]
    /\ UNCHANGED <<fs, hist, client, call>>

store_segments_remove ==
    /\ ingest.pc = "ss_remove"
    /\ remove_if_exists("segments")
    /\ GoTo("ss_create")
    /\ UNCHANGED <<hist, client, call>>

store_segments_create ==
    /\ ingest.pc = "ss_create"
    /\ connect_and_create("segments", "store_segments", "ss_insert")
    /\ UNCHANGED <<hist, client, call>>

store_segments_insert ==
    /\ ingest.pc = "ss_insert"
    /\ SetFile("segments",
               insert_rows(dir.segments,
                           segment_rows(ingest.observation_ids, ingest.segments)))
    /\ GoTo("st_build")
    /\ UNCHANGED <<hist, client, call>>

\* store_segment_tree up to tree.save: the error the construction of the
\* tree raises, or "none".  SegmentTree.__init__ takes segments and verbose,
\* so the body radius is one argument too many.
store_segment_tree_raises(segments, body_radius) ==
    IF body_radius = MARS_RADIUS_M THEN SegmentTree_raises(segments)
    ELSE "TypeError"

\* ingest_idx and store_segment_tree up to tree.save: on Mars the tree is
\* built from whatever list store_segments returned; otherwise an empty list
\* is not stored, and SegmentTree(segments, True, body_radius) is a call with
\* one argument too many.
store_segment_tree_build ==
    /\ ingest.pc = "st_build"
    /\ LET raised == store_segment_tree_raises(ingest.segments,
                                               ingest.body_radius)
       IN  IF ingest.body_radius = MARS_RADIUS_M
           THEN IF raised # "none"
                THEN Raise(raised, "store_segment_tree")
                ELSE GoTo("st_open")
           ELSE IF ingest.segments # <<>>
                THEN Raise(raised, "store_segment_tree")
                ELSE GoTo("done")
    /\ UNCHANGED <<fs, hist, client, call>>

\* SegmentTree.save: open(outputfile, 'wb+')
store_segment_tree_open ==
    /\ ingest.pc = "st_open"
    /\ SetFile("tree", TruncatedPkl)
    /\ GoTo("st_dump")
    /\ UNCHANGED <<hist, client, call>>

\* SegmentTree.save: pickle.dump(self, f)
store_segment_tree_dump ==
    /\ ingest.pc = "st_dump"
    /\ SetFile("tree", dumped_pkl(SegmentTree(ingest.segments)))
    /\ GoTo("done")
    /\ UNCHANGED <<hist, client, call>>

\* ingest_idx returns or its error reaches the caller.
ingest_idx_return ==
    /\ ingest.pc \in {"done", "raised"}
    /\ hist' = [valid |-> TRUE, table |-> ingest.table,
                raises |-> ingest.raises, after |-> dir]
    /\ ingest' = IdleIngest(ingest.instrument)
    /\ UNCHANGED <<fs, client, call>>

IngestInit ==
    /\ fs = [i \in Instruments |->
                [metadata |-> Absent, segments |-> Absent, tree |-> Absent]]
    /\ \E i \in Instruments : ingest = IdleIngest(i)
    /\ hist = NoHist
    /\ client = NoClient
    /\ call = NoCall

IngestNext ==
    \/ ingest_idx_start
    \/ store_metadata_remove
    \/ store_metadata_create
    \/ store_metadata_insert
    \/ store_segments_loop
    \/ store_segments_remove
    \/ store_segments_create
    \/ store_segments_insert
    \/ store_segment_tree_build
    \/ store_segment_tree_open
    \/ store_segment_tree_dump
    \/ ingest_idx_return

SpecIngest == IngestInit /\ [][IngestNext]_vars

(***************************************************************************)
(* ingest_idx run from start to end on an empty directory: the directory   *)
(* it leaves.  The databases a client is pointed at are made this way.     *)
(***************************************************************************)
ingest_idx(instrument, table) ==
    LET body_radius == body_radius_of(instrument)
        out == segment_records(table, body_radius)
        metadata_db == insert_rows(create_table(EmptyDb), table)
        segments_db ==
            insert_rows(create_table(EmptyDb),
                        segment_rows(out.observation_ids, out.segments))
    IN  IF out.raises # "none"
        THEN [metadata |-> metadata_db, segments |-> Absent, tree |-> Absent]
        ELSE [metadata |-> metadata_db,
              segments |-> segments_db,
              tree |-> IF /\ body_radius = MARS_RADIUS_M
                          /\ SegmentTree_raises(out.segments) = "none"
                       THEN dumped_pkl(SegmentTree(out.segments))
                       ELSE Absent]

\* The step-by-step run and the run in one piece agree: a run that started on
\* an empty directory ends with the directory ingest_idx(instrument, table).
StepsAgreeWithRun ==
    (/\ ingest.pc \in {"done", "raised"}
     /\ \A a \in DOMAIN ingest.before : ingest.before[a] = Absent)
        => dir = ingest_idx(ingest.instrument, ingest.table)

(***************************************************************************)
(* client.py: PdsClient over a database directory.                         *)
(***************************************************************************)
\* The instruments of the directory a client is pointed at.
QueryInstruments == {"ctx", "moc", "lroc_nac"}

\* The points queried: directions of latitude and longitude.
QueryPoints ==
    {<<3, 0, 0>>, <<0, 3, 0>>, <<2, -1, 2>>, <<1, 2, 2>>, <<2, 2, 1>>,
     <<-1, -2, -2>>, <<0, -3, 0>>, <<1, 1, 1>>}

\* The radii queried, in meters: negative, zero, 20 and 90 degrees of arc.
QueryRadii == {-MARS_RADIUS_M, 0, 20 * MARS_RADIUS_M, 90 * MARS_RADIUS_M}

\* sorted(set of observation ids): ascending in lexicographic order.
sorted(S) == SelectSeq(ObservationIds, LAMBDA o : o \in S)

\* The array BallTree.query_radius hands back for a set of positions; its
\* order is the tree's business: ascending or descending.
index_array(ids, descending) ==
    LET up == SelectSeq([i \in 1..(SetMax(ids \cup {0}) + 1) |-> i - 1],
                        LAMBDA i : i \in ids)
    IN  IF descending THEN [k \in 1..Len(up) |-> up[Len(up) + 1 - k]] ELSE up

\* SELECT * FROM segments WHERE segment_id=? and cur.fetchone(): the row, or
\* <<>> for None.
fetchone(rows, sid) ==
    IF \E k \in 1..Len(rows) : rows[k][1] = sid
    THEN rows[SetMin({k \in 1..Len(rows) : rows[k][1] = sid})]
    ELSE <<>>

\* PdsClient._query_segments: the <<observation_id, segment>> pairs of the
\* given segment ids in their order; AssertionError when an id has no row.
RECURSIVE _query_segments(_, _, _)
_query_segments(rows, segment_ids, acc) ==
    IF segment_ids = <<>> THEN acc
    ELSE LET row == fetchone(rows, Head(segment_ids))
         IN  IF row = <<>>
             THEN [acc EXCEPT !.raises = "AssertionError"]
             ELSE _query_segments(rows, Tail(segment_ids),
                      [acc EXCEPT !.segments = Append(@, <<row[2], row[3]>>)])

\* PdsClient._get_observation_segments: the segments of the rows with the
\* given observation_id, in row order.
_get_observation_segments(rows, observation_id) ==
    LET hits == SelectSeq(rows, LAMBDA row : row[2] = observation_id)
    IN  [k \in 1..Len(hits) |-> hits[k][3]]

\* A variant of the loop of find_observations_of_latlon that accepts every
\* candidate.
RECURSIVE accept_all_candidates(_, _, _)
accept_all_candidates(segments, point, overlapping_observations) ==
    IF segments = <<>> THEN overlapping_observations
    ELSE accept_all_candidates(Tail(segments), point,
             overlapping_observations \cup {Head(segments)[1]})

\* A variant of the loop of find_observations_of_latlon that stops at the first
\* candidate it accepts.
RECURSIVE first_accepted_only(_, _, _)
first_accepted_only(segments, point, overlapping_observations) ==
    IF segments = <<>> THEN overlapping_observations
    ELSE IF includes_point(Head(segments)[2], point)
    THEN overlapping_observations \cup {Head(segments)[1]}
    ELSE first_accepted_only(Tail(segments), point, overlapping_observations)

\* A variant of the loop of find_observations_of_latlon that decides each
\* observation by the first of its candidates.
first_candidate_decides(segments, point, overlapping_observations) ==
    overlapping_observations \cup
        {segments[k][1] : k \in {j \in 1..Len(segments) :
            /\ \A h \in 1..(j - 1) : segments[h][1] # segments[j][1]
            /\ includes_point(segments[j][2], point)}}

\* The loop of find_observations_of_latlon over the candidates.
RECURSIVE observations_of_latlon(_, _, _)
observations_of_latlon(segments, point, overlapping_observations) ==
    IF segments = <<>> THEN overlapping_observations
    ELSE LET observation_id == Head(segments)[1]
             seg == Head(segments)[2]
         IN  IF observation_id \in overlapping_observations
             THEN observations_of_latlon(Tail(segments), point,
                                         overlapping_observations)
             ELSE IF includes_point(seg, point)
             THEN observations_of_latlon(Tail(segments), point,
                      overlapping_observations \cup {observation_id})
             ELSE observations_of_latlon(Tail(segments), point,
                                         overlapping_observations)

\* A variant of the inner loop of find_overlapping_observations that tests
\* the candidate against itself.
RECURSIVE overlapping_self(_, _, _)
overlapping_self(seg, other_segments, overlapping_observations) ==
    IF other_segments = <<>> THEN overlapping_observations
    ELSE overlapping_self(seg, Tail(other_segments),
             IF overlaps_segment(Head(other_segments)[2], Head(other_segments)[2])
             THEN overlapping_observations \cup {Head(other_segments)[1]}
             ELSE overlapping_observations)

\* The inner loop of find_overlapping_observations over the candidates of
\* one segment.
RECURSIVE overlapping_of_segment(_, _, _)
overlapping_of_segment(seg, other_segments, overlapping_observations) ==
    IF other_segments = <<>> THEN overlapping_observations
    ELSE LET other_oid == Head(other_segments)[1]
             other_seg == Head(other_segments)[2]
         IN  IF other_oid \in overlapping_observations
             THEN overlapping_of_segment(seg, Tail(other_segments),
                                         overlapping_observations)
             ELSE IF overlaps_segment(seg, other_seg)
             THEN overlapping_of_segment(seg, Tail(other_segments),
                      overlapping_observations \cup {other_oid})
             ELSE overlapping_of_segment(seg, Tail(other_segments),
                                         overlapping_observations)

\* The outer loop of find_overlapping_observations over the segments of the
\* query observation; descending tells the order of each candidate list.
RECURSIVE overlapping_loop(_, _, _, _, _)
overlapping_loop(segs, tree, other_rows, descending, acc) ==
    IF segs = <<>> THEN acc
    ELSE LET seg == Head(segs)
             idx == index_array(query_segment(tree, seg), descending)
             other_segments ==
                 _query_segments(other_rows, idx,
                                 [raises |-> "none", segments |-> <<>>])
         IN  IF other_segments.raises # "none"
             THEN [acc EXCEPT !.raises = other_segments.raises]
             ELSE overlapping_loop(Tail(segs), tree, other_rows, descending,
                      [acc EXCEPT !.observations =
                          overlapping_of_segment(seg, other_segments.segments,
                                                 @)])

\* An entry of _seg_trees: None, or the tree loaded from the tree file; loads
\* counts the calls of SegmentTree.load made for the entry.
NoneTree == [loaded |-> FALSE, tree |-> NoTree, loads |-> 0]

LoadedTree(tree, loads) == [loaded |-> TRUE, tree |-> tree, loads |-> loads]

\* A variant of Raised: the error is swallowed and the call returns an empty
\* result.
raised_as_returned(op, args, error) ==
    call' = [op |-> op, args |-> args, status |-> "returned",
             error |-> "none", result |-> <<>>, before |-> client]

\* What a call left behind for its caller: the value it returned or the error
\* it raised, with the client as it was when the call was made.
Returned(op, args, result) ==
    call' = [op |-> op, args |-> args, status |-> "returned",
             error |-> "none", result |-> result, before |-> client]

Raised(op, args, error) ==
    call' = [op |-> op, args |-> args, status |-> "raised",
             error |-> error, result |-> <<>>, before |-> client]

\* A variant of PdsClient.__init__ that records the tree-file path of every
\* instrument, before it looks whether the files exist.
PdsClient_every_tree_file(database) ==
    LET instruments ==
            {i \in DOMAIN database : FileExists(database[i].metadata)}
        seg_files ==
            {i \in instruments : /\ FileExists(database[i].segments)
                                 /\ FileExists(database[i].tree)}
    IN  [state |-> "ready",
         instruments |-> instruments,
         seg_files |-> seg_files,
         seg_tree_files |-> instruments,
         seg_trees |-> [i \in seg_files |-> NoneTree]]

\* The client PdsClient.__init__ builds on a database directory: the keys of
\* _seg_files, of _seg_tree_files and of _seg_trees are set in one loop, for
\* the instruments that have both files.
PdsClient(database) ==
    LET instruments ==
            {i \in DOMAIN database : FileExists(database[i].metadata)}
        both_exist(i) == /\ FileExists(database[i].segments)
                         /\ FileExists(database[i].tree)
    IN  [state |-> "ready",
         instruments |-> instruments,
         seg_files |-> {i \in instruments : both_exist(i)},
         seg_tree_files |-> {i \in instruments : both_exist(i)},
         seg_trees |-> [i \in {j \in instruments : both_exist(j)} |-> NoneTree]]

\* PdsClient.__init__(database_directory): the instruments are those with a
\* metadata database; those with a segment database and a tree file as well
\* get an entry in _seg_files and None in _seg_trees.
PdsClient_init ==
    /\ client.state = "none"
    /\ call = NoCall
    /\ \E database_directory \in {"None", "missing", "database"} :
           IF database_directory # "database"
           THEN /\ Raised("PdsClient", <<database_directory>>, "ValueError")
                /\ UNCHANGED client
           ELSE /\ client' = PdsClient(fs)
                /\ Returned("PdsClient", <<database_directory>>, <<>>)
    /\ UNCHANGED <<fs, ingest, hist>>

\* The instruments callers ask for: those of the directory and one that no file
\* of the directory is named after.
CallInstruments == QueryInstruments \cup {"bad_instrument"}

\* A variant of SegmentTree.load that hands back the tree short of its last
\* segment.
load_truncated(inputfile) ==
    [inputfile.tree EXCEPT !.data = SubSeq(@, 1, Len(@) - 1)]

\* SegmentTree.load(inputfile): the tree pickled in the file.
SegmentTree_load(inputfile) == inputfile.tree

\* A variant of PdsClient._get_seg_tree that loads the tree file on every
\* call.
get_seg_tree_reloading(instrument) ==
    [client.seg_trees EXCEPT
        ![instrument] = LoadedTree(SegmentTree_load(fs[instrument].tree),
                                   @.loads + 1)]

\* PdsClient._get_seg_tree: the entries of _seg_trees after the call.
_get_seg_tree(instrument) ==
    IF client.seg_trees[instrument].loaded THEN client.seg_trees
    ELSE [client.seg_trees EXCEPT
             ![instrument] = LoadedTree(SegmentTree_load(fs[instrument].tree),
                                        @.loads + 1)]

\* A direct call of PdsClient._get_seg_tree: ValueError for an instrument
\* without an entry in _seg_trees, else the (now loaded) tree.
PdsClient_get_seg_tree ==
    /\ client.state = "ready"
    /\ call = NoCall
    /\ \E instrument \in CallInstruments :
           LET op == "_get_seg_tree"
               args == <<instrument>>
           IN  IF instrument \notin DOMAIN client.seg_trees
               THEN Raised(op, args, "ValueError") /\ UNCHANGED client
               ELSE LET seg_trees == _get_seg_tree(instrument)
                    IN  /\ client' = [client EXCEPT !.seg_trees = seg_trees]
                        /\ Returned(op, args, <<seg_trees[instrument].tree>>)
    /\ UNCHANGED <<fs, ingest, hist>>

find_observations_of_latlon ==
    /\ client.state = "ready"
    /\ call = NoCall
    /\ \E instrument \in CallInstruments, latlon \in QueryPoints,
          r \in QueryRadii, descending \in BOOLEAN :
           LET op == "find_observations_of_latlon"
               args == <<instrument, latlon, r>>
           IN  IF instrument \notin client.seg_files
               THEN Raised(op, args, "AssertionError") /\ UNCHANGED client
               ELSE LET seg_trees == _get_seg_tree(instrument)
                        tree == seg_trees[instrument].tree
                    IN  /\ client' = [client EXCEPT !.seg_trees = seg_trees]
                        /\ IF PointQuery_raises(latlon, r) # "none"
                           THEN Raised(op, args, PointQuery_raises(latlon, r))
                           ELSE LET point == PointQuery(latlon, r)
                                    idx == index_array(query_point(tree, point),
                                                       descending)
                                    segments == _query_segments(
                                        fs[instrument].segments.rows, idx,
                                        [raises |-> "none", segments |-> <<>>])
                                IN  IF segments.raises # "none"
                                    THEN Raised(op, args, segments.raises)
                                    ELSE Returned(op, args,
                                             sorted(observations_of_latlon(
                                                 segments.segments, point, {})))
    /\ UNCHANGED <<fs, ingest, hist>>

find_overlapping_observations ==
    /\ client.state = "ready"
    /\ call = NoCall
    /\ \E instrument \in CallInstruments, observation_id \in Range(ObservationIds),
          other_instrument \in CallInstruments, descending \in BOOLEAN :
           LET op == "find_overlapping_observations"
               args == <<instrument, observation_id, other_instrument>>
           IN  IF \/ instrument \notin client.seg_files
                  \/ other_instrument \notin client.seg_files
               THEN Raised(op, args, "AssertionError") /\ UNCHANGED client
               ELSE LET seg_trees == _get_seg_tree(other_instrument)
                        tree == seg_trees[other_instrument].tree
                        segs == _get_observation_segments(
                                    fs[instrument].segments.rows, observation_id)
                        out == overlapping_loop(
                                   segs, tree, fs[other_instrument].segments.rows,
                                   descending,
                                   [raises |-> "none", observations |-> {}])
                    IN  /\ client' = [client EXCEPT !.seg_trees = seg_trees]
                        /\ IF out.raises # "none"
                           THEN Raised(op, args, out.raises)
                           ELSE Returned(op, args, sorted(out.observations))
    /\ UNCHANGED <<fs, ingest, hist>>

\* The caller takes what the call returned or raised; the next call can be made.
caller_continues ==
    /\ call # NoCall
    /\ call' = NoCall
    /\ UNCHANGED <<fs, ingest, hist, client>>

\* The client is pointed at a directory that ingest_idx filled, one run per
\* instrument.
QueryInit ==
    /\ \E ctx \in Tables("ctx"), moc \in SeqsUpTo(Records("moc"), 1) :
           fs = [i \in QueryInstruments |->
                    ingest_idx(i, CASE i = "ctx" -> ctx
                                    [] i = "moc" -> moc
                                    [] OTHER -> <<PdsMetadata(
                                           i, ObservationIds[1],
                                           Localizer("none", 1, GridNear))>>)]
    /\ ingest = IdleIngest("ctx")
    /\ hist = NoHist
    /\ client = NoClient
    /\ call = NoCall

QueryNext ==
    \/ PdsClient_init
    \/ PdsClient_get_seg_tree
    \/ find_observations_of_latlon
    \/ find_overlapping_observations
    \/ caller_continues

SpecQuery == QueryInit /\ [][QueryNext]_vars

(***************************************************************************)
(* A SegmentTree on its own: built from a list of segments, then queried.  *)
(***************************************************************************)
\* The longest list of segments a tree is built from.
MaxSegments == 2

\* The segments of the four footprints.
SegmentPool ==
    Range(footprint_segments(GridNear, 1))
    \cup Range(footprint_segments(GridNext, -1))
    \cup Range(footprint_segments(GridFar, -1))
    \cup Range(footprint_segments(GridWide, 1))

SegmentTree_query_point ==
    /\ client.state = "tree"
    /\ call = NoCall
    /\ \E latlon \in QueryPoints, r \in QueryRadii, descending \in BOOLEAN :
           IF PointQuery_raises(latlon, r) # "none"
           THEN Raised("query_point", <<latlon, r>>, PointQuery_raises(latlon, r))
           ELSE Returned("query_point", <<latlon, r>>,
                         index_array(query_point(client.tree,
                                                 PointQuery(latlon, r)),
                                     descending))
    /\ UNCHANGED <<fs, ingest, hist, client>>

SegmentTree_query_segment ==
    /\ client.state = "tree"
    /\ call = NoCall
    /\ \E segment \in SegmentPool, descending \in BOOLEAN :
           Returned("query_segment", <<segment>>,
                    index_array(query_segment(client.tree, segment), descending))
    /\ UNCHANGED <<fs, ingest, hist, client>>

\* SegmentTree(segments) has been built from a list of valid segments.
TreeInit ==
    /\ fs = [i \in Instruments |->
                [metadata |-> Absent, segments |-> Absent, tree |-> Absent]]
    /\ ingest = IdleIngest("ctx")
    /\ hist = NoHist
    /\ \E segments \in SeqsUpTo(SegmentPool, MaxSegments) :
           /\ SegmentTree_raises(segments) = "none"
           /\ client = [state |-> "tree", segments |-> segments,
                        tree |-> SegmentTree(segments)]
    /\ call = NoCall

TreeNext ==
    \/ SegmentTree_query_point
    \/ SegmentTree_query_segment
    \/ caller_continues

SpecTree == TreeInit /\ [][TreeNext]_vars

(***************************************************************************)
(* Properties of ingestion, checked under SpecIngest.                      *)
(***************************************************************************)
Artifacts == {"metadata", "segments", "tree"}

\* store_segments has returned in the run in progress.
PastStoreSegments ==
    \/ ingest.pc \in {"st_build", "st_open", "st_dump", "done"}
    \/ ingest.pc = "raised" /\ ingest.where = "store_segment_tree"

\* The loop of store_segments has run to its end in the run in progress.
PastSegmentLoop ==
    PastStoreSegments \/ ingest.pc \in {"ss_remove", "ss_create", "ss_insert"}

\* The segments the segmenter yields for record m.
Emitted(m) ==
    IF m.localizer.raises = "none"
    THEN footprint_segments(m.localizer.latlon_grid, m.localizer.flight_direction)
    ELSE <<>>

\* An error is raised in the try block of store_segments for record m.
SegmentingRaises(m) ==
    \/ TriSegmentedFootprint_raises(m, ingest.body_radius # MARS_RADIUS_M) # "none"
    \/ ~hasattr_observation_id(m) /\ Emitted(m) # <<>>

\* <<observation_id, segment>> for all segments of the records from the i-th
\* on that segment without error, in emission order.
RECURSIVE Contributions(_, _)
Contributions(metadata, i) ==
    IF i > Len(metadata) THEN <<>>
    ELSE (IF SegmentingRaises(metadata[i]) THEN <<>>
          ELSE [k \in 1..Len(Emitted(metadata[i])) |->
                   <<metadata[i].observation_id, Emitted(metadata[i])[k]>>])
         \o Contributions(metadata, i + 1)

\* All segments the segmenter yields for the records from the i-th on.
RECURSIVE AllEmitted(_, _)
AllEmitted(metadata, i) ==
    IF i > Len(metadata) THEN <<>>
    ELSE Emitted(metadata[i]) \o AllEmitted(metadata, i + 1)

\* a is b with some of its elements left out.
RECURSIVE IsSubseq(_, _)
IsSubseq(a, b) ==
    IF a = <<>> THEN TRUE
    ELSE IF b = <<>> THEN FALSE
    ELSE IF Head(a) = Head(b) THEN IsSubseq(Tail(a), Tail(b))
    ELSE IsSubseq(a, Tail(b))

\* C3, as the specification states it: once ingest_idx has written the segment
\* table and the segment tree, every position i of the list the tree was built
\* from has exactly one row with segment_id = i, holding the coordinates of the
\* i-th segment and the observation_id of the record that produced it.
C3_TreeAndTableAgree ==
    (ingest.pc = "done" /\ FileExists(dir.tree)) =>
        LET rows == dir.segments.rows
            data == dir.tree.tree.data
        IN  \A i \in 1..Len(data) :
                /\ Cardinality({k \in 1..Len(rows) : rows[k][1] = i - 1}) = 1
                /\ \A k \in 1..Len(rows) :
                       rows[k][1] = i - 1 =>
                           /\ rows[k][3] = ingest.segments[i]
                           /\ center(rows[k][3]) = data[i]
                           /\ \E m \in Range(ingest.metadata) :
                                  /\ m.observation_id = rows[k][2]
                                  /\ rows[k][3] \in Range(Emitted(m))

\* C4, as the specification states it: after store_segments, the list returned
\* for the tree and the rows of the table hold all segments of the records
\* that segment without error, and nothing of a record for which an error was
\* raised.
C4_AllOrNothing ==
    PastStoreSegments =>
        LET expected == Contributions(ingest.metadata, 1)
            rows == dir.segments.rows
        IN  /\ ingest.segments = [k \in 1..Len(expected) |-> expected[k][2]]
            /\ [k \in 1..Len(rows) |-> <<rows[k][2], rows[k][3]>>] = expected

\* C5, as the specification states it: no error raised while segmenting a
\* record ends store_segments.
C5_AlwaysCompletes ==
    ~(ingest.pc = "raised" /\ ingest.where = "store_segments")

\* C5, amended: store_segments skips a record and goes on with the next one
\* when segmenting it raises TypeError or ValueError; an error of another kind
\* (IndexError for an instrument without a localizer) ends store_segments with
\* that error, the segment table and the tree left as they were.
C5_SkipsCaughtErrorsOnly ==
    /\ (ingest.pc = "raised" /\ ingest.where = "store_segments") =>
           /\ ingest.raises \notin {"TypeError", "ValueError"}
           /\ \E m \in Range(ingest.metadata) :
                  get_localizer_raises(m) = ingest.raises
           /\ dir.segments = ingest.before.segments
           /\ dir.tree = ingest.before.tree
    /\ PastSegmentLoop =>
           \A i \in 1..Len(ingest.metadata) :
               LET m == ingest.metadata[i]
               IN  /\ TriSegmentedFootprint_raises(
                          m, ingest.body_radius # MARS_RADIUS_M)
                          \in {"none", "TypeError", "ValueError"}
                   /\ ~SegmentingRaises(m) =>
                          /\ Range(Emitted(m)) \subseteq Range(ingest.segments)
                          /\ m.observation_id \in Range(ingest.observation_ids)

\* C5 witness: the first of two records raised ValueError and the second one
\* was segmented.
C5_Witness ==
    /\ ingest.pc = "ss_remove"
    /\ Len(ingest.metadata) = 2
    /\ ingest.metadata[1].localizer.raises = "ValueError"
    /\ ingest.observation_ids # <<>>

\* C6, as the specification states it: at every instant each artifact is the
\* complete one from before the run or a complete new one.
C6_AtomicReplace ==
    \A a \in Artifacts : dir[a] = ingest.before[a] \/ Complete(dir[a])

\* The positions of a run between the removal or truncation of an artifact
\* and the end of its writing.
WriteWindow(a) ==
    CASE a = "metadata" -> {"sm_create", "sm_insert"}
      [] a = "segments" -> {"ss_create", "ss_insert"}
      [] a = "tree" -> {"st_dump"}

\* C6, amended: ingestion rewrites an artifact in place (the database file is
\* removed, then created and filled; the tree file is truncated, then
\* written), so a reader finds an artifact missing or incomplete only while
\* the run is between removing or truncating it and the end of writing it;
\* at every other instant the artifact is the complete previous one or a
\* complete new one.
C6_ReplacedInPlace ==
    \A a \in Artifacts :
        \/ dir[a] = ingest.before[a]
        \/ Complete(dir[a])
        \/ ingest.pc \in WriteWindow(a)

\* C6 witness: the complete metadata database of an earlier run has been
\* removed and the new one is not yet created.
C6_Witness ==
    /\ ingest.pc = "sm_create"
    /\ Complete(ingest.before.metadata)
    /\ ~FileExists(dir.metadata)

\* C7: when ingest_idx ends a run on the table the run before it was given,
\* the three artifacts and the outcome are those the run before it left.
C7_Idempotent ==
    (ingest.pc \in {"done", "raised"} /\ hist.valid /\ hist.table = ingest.table)
        => (dir = hist.after /\ ingest.raises = hist.raises)

\* C7 witness: a second run on the same two records has returned, all three
\* artifacts written.
C7_Witness ==
    /\ ingest.pc = "done"
    /\ hist.valid
    /\ hist.table = ingest.table
    /\ Len(ingest.table) = 2
    /\ Complete(dir.tree)
    /\ Len(dir.segments.rows) > 2

\* C8: the k rows store_segments writes have the segment_id values 0 .. k-1 in
\* order, and their segments are in the order the segmenter emitted them,
\* record after record.
C8_IdsInEmissionOrder ==
    PastStoreSegments =>
        LET rows == dir.segments.rows
        IN  /\ \A k \in 1..Len(rows) : rows[k][1] = k - 1
            /\ \A k \in 1..Len(rows) : rows[k][3] = ingest.segments[k]
            /\ IsSubseq([k \in 1..Len(rows) |-> rows[k][3]],
                        AllEmitted(ingest.metadata, 1))

\* C8 witness: the table holds the four segments of two different records.
C8_Witness ==
    /\ PastStoreSegments
    /\ Len(dir.segments.rows) = 4
    /\ dir.segments.rows[1][2] # dir.segments.rows[3][2]

(***************************************************************************)
(* Properties of the client, checked under SpecQuery.                      *)
(***************************************************************************)
\* The place of an observation id in the lexicographic order.
Rank(o) == CHOOSE k \in 1..Len(ObservationIds) : ObservationIds[k] = o

\* A list of observation ids is ascending, which leaves no room for a repeat.
Ascending(ids) ==
    \A i, j \in 1..Len(ids) : i < j => Rank(ids[i]) < Rank(ids[j])

\* The rows of a segment table whose segment_id is among the given ids.
RowsOf(rows, ids) == {rows[k] : k \in {j \in 1..Len(rows) : rows[j][1] \in ids}}

\* C1: a call of find_observations_of_latlon that returns, returns an
\* ascending list without repeats of exactly the observation ids that own, in
\* the segment table, a candidate of the tree's query_point for which
\* includes_point is true.
C1_ObservationsOfLatlon ==
    (call.op = "find_observations_of_latlon" /\ call.status = "returned") =>
        LET instrument == call.args[1]
            point == PointQuery(call.args[2], call.args[3])
            candidates == RowsOf(fs[instrument].segments.rows,
                                 query_point(fs[instrument].tree.tree, point))
        IN  /\ Ascending(call.result)
            /\ Range(call.result) =
                   {row[2] : row \in {c \in candidates :
                                          includes_point(c[3], point)}}

\* C1 witness: a call returned an observation and left out another one, which
\* owns a candidate that does not include the point.
C1_Witness ==
    /\ call.op = "find_observations_of_latlon"
    /\ call.status = "returned"
    /\ call.result # <<>>
    /\ \E c \in RowsOf(fs[call.args[1]].segments.rows,
                       query_point(fs[call.args[1]].tree.tree,
                                   PointQuery(call.args[2], call.args[3]))) :
           c[2] \notin Range(call.result)

\* C2: a call of find_overlapping_observations that returns, returns an
\* ascending list without repeats of exactly the observation ids of the other
\* instrument that own a candidate c of its tree's query_segment(s) with
\* s.overlaps_segment(c), for a segment s the first instrument's table holds
\* under the given observation id.
C2_OverlappingObservations ==
    (call.op = "find_overlapping_observations" /\ call.status = "returned") =>
        LET rows == fs[call.args[1]].segments.rows
            segs == {rows[k][3] : k \in {j \in 1..Len(rows) :
                                            rows[j][2] = call.args[2]}}
            other == fs[call.args[3]]
        IN  /\ Ascending(call.result)
            /\ Range(call.result) =
                   {c[2] : c \in
                       {d \in UNION {RowsOf(other.segments.rows,
                                            query_segment(other.tree.tree, s)) :
                                         s \in segs} :
                           \E s \in segs :
                               /\ d[1] \in query_segment(other.tree.tree, s)
                               /\ overlaps_segment(s, d[3])}}

\* C2 witness: a call between two instruments returned an observation while
\* another observation's candidate overlaps none of the segments.
C2_Witness ==
    /\ call.op = "find_overlapping_observations"
    /\ call.status = "returned"
    /\ call.args[1] # call.args[3]
    /\ Len(call.result) = 1
    /\ LET rows == fs[call.args[1]].segments.rows
           other == fs[call.args[3]]
       IN  \E k \in 1..Len(rows) :
               /\ rows[k][2] = call.args[2]
               /\ \E c \in RowsOf(other.segments.rows,
                                  query_segment(other.tree.tree, rows[k][3])) :
                      c[2] \notin Range(call.result)

(***************************************************************************)
(* Properties of the segment tree, checked under SpecTree.                 *)
(***************************************************************************)
\* Two segments have a point in common: the direction of one of the
\* vertices, of the centers or of the sums of two of these is inside both.
SharedPoint(s, t) ==
    LET base == Range(s) \cup Range(t) \cup {center(s), center(t)}
    IN  \E p \in (base \cup {vadd(a, b) : a \in base, b \in base}) \ {Zero3} :
            is_inside(s, p) /\ is_inside(t, p)

\* C9: every segment of the list a tree was built from for which
\* includes_point is true of a point query is among the ids query_point
\* returns for it, and every such segment that has a point in common with a
\* query segment is among the ids query_segment returns for it.
C9_TreeSoundness ==
    /\ (call.op = "query_point" /\ call.status = "returned") =>
           \A i \in 1..Len(client.segments) :
               includes_point(client.segments[i],
                              PointQuery(call.args[1], call.args[2]))
                   => (i - 1) \in Range(call.result)
    /\ (call.op = "query_segment" /\ call.status = "returned") =>
           \A i \in 1..Len(client.segments) :
               SharedPoint(client.segments[i], call.args[1])
                   => (i - 1) \in Range(call.result)

\* C9 witness: a point query of radius zero at a vertex of the largest
\* segment, the vertex farthest from its center: the segment includes the
\* point and its center is at the very edge of the radius searched.
C9_Witness ==
    /\ call.op = "query_point"
    /\ call.status = "returned"
    /\ call.args[2] = 0
    /\ \E i \in 1..Len(client.segments) :
           /\ includes_point(client.segments[i], PointQuery(call.args[1], 0))
           /\ geodesic_distance(center(client.segments[i]), call.args[1],
                                MARS_RADIUS_M)
                  = SetMax({radius(client.segments[j]) :
                               j \in 1..Len(client.segments)})

\* C10: query_point returns, each once, exactly the positions (from 0) of the
\* segments whose center is within the angle (point.radius + max_radius) /
\* MARS_RADIUS_M of the point, and query_segment those within (segment.radius
\* + max_radius) / MARS_RADIUS_M of the segment's center, max_radius being the
\* largest radius of the segments the tree was built from.
C10_QueryRadius ==
    LET segments == client.segments
        max_radius == SetMax({radius(segments[i]) : i \in 1..Len(segments)})
        within(X, total) ==
            {i - 1 : i \in {j \in 1..Len(segments) :
                 haversine(center(segments[j]), X) * MARS_RADIUS_M <= total}}
    IN  /\ (call.op = "query_point" /\ call.status = "returned") =>
               /\ Range(call.result) =
                      within(call.args[1], call.args[2] + max_radius)
               /\ Len(call.result) = Cardinality(Range(call.result))
        /\ (call.op = "query_segment" /\ call.status = "returned") =>
               /\ Range(call.result) =
                      within(center(call.args[1]),
                             radius(call.args[1]) + max_radius)
               /\ Len(call.result) = Cardinality(Range(call.result))

\* C10 witness: a segment query on a tree of two segments of different radii
\* returned one of them and not the other.
C10_Witness ==
    /\ call.op = "query_segment"
    /\ call.status = "returned"
    /\ Len(client.segments) = 2
    /\ radius(client.segments[1]) # radius(client.segments[2])
    /\ Len(call.result) = 1

(***************************************************************************)
(* Order of the candidates                                                 *)
(***************************************************************************)

\* Every order in which the members of a set can be listed.
RECURSIVE PermsOf(_)
PermsOf(S) ==
    IF S = {} THEN {<<>>}
    ELSE UNION {{<<x>> \o p : p \in PermsOf(S \ {x})} : x \in S}

\* What the outer loop of find_overlapping_observations can end with when
\* each candidate list comes in an order of the tree's choosing.
RECURSIVE overlapping_outcomes(_, _, _, _)
overlapping_outcomes(segs, tree, other_rows, acc) ==
    IF segs = <<>> THEN {acc}
    ELSE LET after_head == {
                 LET other_segments ==
                         _query_segments(other_rows, p,
                             [raises |-> "none", segments |-> <<>>])
                 IN  IF other_segments.raises # "none"
                     THEN [acc EXCEPT !.raises = other_segments.raises]
                     ELSE [acc EXCEPT !.observations =
                              overlapping_of_segment(Head(segs),
                                  other_segments.segments, @)] :
                 p \in PermsOf(query_segment(tree, Head(segs)))}
         IN  UNION {IF a.raises # "none" THEN {a}
                    ELSE overlapping_outcomes(Tail(segs), tree, other_rows, a) :
                    a \in after_head}

\* The client is pointed at a directory that ingest_idx filled: any table for
\* ctx, and for moc the one observation next to the first of ctx.
OrderInit ==
    /\ \E ctx \in Tables("ctx") :
           fs = [i \in QueryInstruments |->
                    ingest_idx(i, IF i = "ctx" THEN ctx
                                  ELSE <<PdsMetadata(
                                           i, ObservationIds[2],
                                           Localizer("none", -1, GridNext))>>)]
    /\ ingest = IdleIngest("ctx")
    /\ hist = NoHist
    /\ client = NoClient
    /\ call = NoCall

SpecOrder == OrderInit /\ [][QueryNext]_vars

\* C11: what find_observations_of_latlon and find_overlapping_observations
\* return is a function of the artifacts and the arguments alone: run again
\* on the instrument's tree file and segment table with the candidate ids in
\* any order whatever, the loops return the very sequence the call returned,
\* whatever the client had cached when the call was made.
C11_OrderIndependent ==
    /\ (call.op = "find_observations_of_latlon" /\ call.status = "returned") =>
           LET instrument == call.args[1]
               point == PointQuery(call.args[2], call.args[3])
           IN  \A p \in PermsOf(query_point(fs[instrument].tree.tree, point)) :
                   LET segments ==
                           _query_segments(fs[instrument].segments.rows, p,
                               [raises |-> "none", segments |-> <<>>])
                   IN  /\ segments.raises = "none"
                       /\ sorted(observations_of_latlon(segments.segments,
                                                        point, {}))
                              = call.result
    /\ (call.op = "find_overlapping_observations"
            /\ call.status = "returned") =>
           \A out \in overlapping_outcomes(
                         _get_observation_segments(
                             fs[call.args[1]].segments.rows, call.args[2]),
                         fs[call.args[3]].tree.tree,
                         fs[call.args[3]].segments.rows,
                         [raises |-> "none", observations |-> {}]) :
               /\ out.raises = "none"
               /\ sorted(out.observations) = call.result

\* C11 witness: a call returned two observations found among at least two
\* candidates, by a client that had the tree cached from an earlier call.
C11_Witness ==
    /\ call.op = "find_observations_of_latlon"
    /\ call.status = "returned"
    /\ Len(call.result) = 2
    /\ call.before.seg_trees[call.args[1]].loaded
    /\ Cardinality(query_point(fs[call.args[1]].tree.tree,
                               PointQuery(call.args[2], call.args[3]))) >= 2

(***************************************************************************)
(* Failed calls                                                            *)
(***************************************************************************)

\* C12: a call of find_observations_of_latlon that raises leaves the client,
\* its _seg_trees included, as it was when the call was made.
C12_FailedCallMutatesNothing ==
    (call.op = "find_observations_of_latlon" /\ call.status = "raised") =>
        client = call.before

(***************************************************************************)
(* The cache of segment trees                                              *)
(***************************************************************************)

\* The instrument whose tree a call asks _get_seg_tree for.
TreeInstrument(c) ==
    IF c.op = "find_overlapping_observations" THEN c.args[3] ELSE c.args[1]

SpatialOps ==
    {"find_observations_of_latlon", "find_overlapping_observations",
     "_get_seg_tree"}

Threads == {"t1", "t2"}

ThreadInstruments == {"ctx", "moc"}

ThreadPoints == {<<3, 0, 0>>, <<2, -1, 2>>}

ThreadRadii == {-MARS_RADIUS_M, 20 * MARS_RADIUS_M}

IdleThread == [pc |-> "idle"]

\* find_observations_of_latlon from the PointQuery on, with the tree that
\* _get_seg_tree returned.
observations_of_latlon_with(tree, instrument, latlon, r) ==
    IF PointQuery_raises(latlon, r) # "none"
    THEN [status |-> "raised", error |-> PointQuery_raises(latlon, r),
          result |-> <<>>]
    ELSE LET point == PointQuery(latlon, r)
             idx == index_array(query_point(tree, point), FALSE)
             segments == _query_segments(fs[instrument].segments.rows, idx,
                             [raises |-> "none", segments |-> <<>>])
         IN  IF segments.raises # "none"
             THEN [status |-> "raised", error |-> segments.raises,
                   result |-> <<>>]
             ELSE [status |-> "returned", error |-> "none",
                   result |-> sorted(observations_of_latlon(
                                  segments.segments, point, {}))]

\* find_overlapping_observations from the loop on, with the tree that
\* _get_seg_tree returned.
overlapping_observations_with(tree, instrument, observation_id, other) ==
    LET out == overlapping_loop(
                   _get_observation_segments(fs[instrument].segments.rows,
                                             observation_id),
                   tree, fs[other].segments.rows, FALSE,
                   [raises |-> "none", observations |-> {}])
    IN  IF out.raises # "none"
        THEN [status |-> "raised", error |-> out.raises, result |-> <<>>]
        ELSE [status |-> "returned", error |-> "none",
              result |-> sorted(out.observations)]

ThreadGoTo(t, pc) == call' = [call EXCEPT ![t].pc = pc]

ThreadRaise(t, error) ==
    call' = [call EXCEPT ![t].pc = "done", ![t].status = "raised",
                         ![t].error = error]

\* A thread enters find_observations_of_latlon or
\* find_overlapping_observations: the assertions on _seg_files.
thread_call(t) ==
    /\ call[t].pc = "idle"
    /\ \E op \in {"find_observations_of_latlon",
                   "find_overlapping_observations"},
          instrument \in ThreadInstruments \cup {"lroc_nac"},
          other_instrument \in ThreadInstruments,
          latlon \in ThreadPoints, r \in ThreadRadii,
          observation_id \in {ObservationIds[1]} :
           LET args == IF op = "find_observations_of_latlon"
                       THEN <<instrument, latlon, r>>
                       ELSE <<instrument, observation_id, other_instrument>>
               asserted == IF op = "find_observations_of_latlon"
                           THEN {instrument}
                           ELSE {instrument, other_instrument}
               entered == [pc |-> "get_seg_tree", op |-> op, args |-> args,
                           seen_none |-> FALSE, tree |-> NoTree,
                           status |-> "running", error |-> "none",
                           result |-> <<>>]
           IN  IF asserted \subseteq client.seg_files
               THEN call' = [call EXCEPT ![t] = entered]
               ELSE call' = [call EXCEPT ![t] =
                                [entered EXCEPT !.pc = "done",
                                                !.status = "raised",
                                                !.error = "AssertionError"]]
    /\ UNCHANGED <<fs, ingest, hist, client>>

\* _get_seg_tree: the test on the instrument and the test `is None`.
thread_get_seg_tree(t) ==
    /\ call[t].pc = "get_seg_tree"
    /\ LET instrument == TreeInstrument(call[t])
       IN  IF instrument \notin DOMAIN client.seg_trees
           THEN ThreadRaise(t, "ValueError")
           ELSE IF client.seg_trees[instrument].loaded
           THEN ThreadGoTo(t, "return")
           ELSE call' = [call EXCEPT ![t].pc = "load", ![t].seen_none = TRUE]
    /\ UNCHANGED <<fs, ingest, hist, client>>

\* _get_seg_tree: SegmentTree.load(self._seg_tree_files[instrument]).
thread_load(t) ==
    /\ call[t].pc = "load"
    /\ call' = [call EXCEPT
                   ![t].pc = "store",
                   ![t].tree =
                       SegmentTree_load(fs[TreeInstrument(call[t])].tree)]
    /\ UNCHANGED <<fs, ingest, hist, client>>

\* _get_seg_tree: self._seg_trees[instrument] = <the loaded tree>.
thread_store(t) ==
    /\ call[t].pc = "store"
    /\ client' = [client EXCEPT
                     !.seg_trees[TreeInstrument(call[t])] =
                         LoadedTree(call[t].tree, @.loads + 1)]
    /\ ThreadGoTo(t, "return")
    /\ UNCHANGED <<fs, ingest, hist>>

\* _get_seg_tree: return self._seg_trees[instrument].
thread_return(t) ==
    /\ call[t].pc = "return"
    /\ call' = [call EXCEPT
                   ![t].pc = "query",
                   ![t].tree = client.seg_trees[TreeInstrument(call[t])].tree]
    /\ UNCHANGED <<fs, ingest, hist, client>>

\* The rest of the call, on the tree _get_seg_tree returned.
thread_query(t) ==
    /\ call[t].pc = "query"
    /\ LET c == call[t]
           out == IF c.op = "find_observations_of_latlon"
                  THEN observations_of_latlon_with(c.tree, c.args[1],
                                                   c.args[2], c.args[3])
                  ELSE overlapping_observations_with(c.tree, c.args[1],
                                                     c.args[2], c.args[3])
       IN  call' = [call EXCEPT ![t].pc = "done",
                                ![t].status = out.status,
                                ![t].error = out.error,
                                ![t].result = out.result]
    /\ UNCHANGED <<fs, ingest, hist, client>>

\* The thread takes what its call returned or raised.
thread_continues(t) ==
    /\ call[t].pc = "done"
    /\ call' = [call EXCEPT ![t] = IdleThread]
    /\ UNCHANGED <<fs, ingest, hist, client>>

\* A client built on a directory that ingest_idx filled; no call yet.
ThreadsInit ==
    /\ \E ctx \in SeqsUpTo(Records("ctx"), 1) :
           fs = [i \in QueryInstruments |->
                    ingest_idx(i, IF i = "ctx" THEN ctx
                                  ELSE <<PdsMetadata(
                                           i, ObservationIds[1],
                                           Localizer("none", 1, GridNear))>>)]
    /\ ingest = IdleIngest("ctx")
    /\ hist = NoHist
    /\ client = PdsClient(fs)
    /\ call = [t \in Threads |-> IdleThread]

ThreadsNext ==
    \E t \in Threads :
        \/ thread_call(t)
        \/ thread_get_seg_tree(t)
        \/ thread_load(t)
        \/ thread_store(t)
        \/ thread_return(t)
        \/ thread_query(t)
        \/ thread_continues(t)

SpecThreads == ThreadsInit /\ [][ThreadsNext]_vars

\* C14: under every interleaving of the steps of two calls, an entry of
\* _seg_trees is None or the whole tree of the instrument's tree file, the
\* tree a call loaded or was handed by _get_seg_tree is that whole tree, and
\* the call ends as it would have ended alone on the tree file.
C14_ConcurrentLoadsAreSafe ==
    /\ \A i \in DOMAIN client.seg_trees :
           \/ ~client.seg_trees[i].loaded /\ client.seg_trees[i].tree = NoTree
           \/ /\ client.seg_trees[i].loaded
              /\ client.seg_trees[i].tree = fs[i].tree.tree
    /\ \A t \in Threads :
           LET c == call[t]
           IN  /\ (c.pc \in {"store", "query"}) =>
                      c.tree = fs[TreeInstrument(c)].tree.tree
               /\ (c.pc = "done" /\ c.error # "AssertionError") =>
                      LET alone ==
                              IF c.op = "find_observations_of_latlon"
                              THEN observations_of_latlon_with(
                                       fs[c.args[1]].tree.tree, c.args[1],
                                       c.args[2], c.args[3])
                              ELSE overlapping_observations_with(
                                       fs[c.args[3]].tree.tree, c.args[1],
                                       c.args[2], c.args[3])
                      IN  /\ c.tree = fs[TreeInstrument(c)].tree.tree
                          /\ c.status = alone.status
                          /\ c.error = alone.error
                          /\ c.result = alone.result

\* C14 witness: two calls on the same instrument both found the entry None,
\* both loaded and stored the tree, and both returned.
C14_Witness ==
    /\ call["t1"].pc = "done" /\ call["t2"].pc = "done"
    /\ call["t1"].seen_none /\ call["t2"].seen_none
    /\ TreeInstrument(call["t1"]) = TreeInstrument(call["t2"])
    /\ call["t1"].status = "returned" /\ call["t2"].status = "returned"
    /\ call["t1"].result # <<>>
    /\ client.seg_trees[TreeInstrument(call["t1"])].loads = 2

(***************************************************************************)
(* Instruments without a spatial index                                     *)
(***************************************************************************)

\* The directory has no segment table or no tree file for the instrument.
LacksSegmentFiles(i) ==
    \/ i \notin DOMAIN fs
    \/ ~FileExists(fs[i].segments)
    \/ ~FileExists(fs[i].tree)

\* The instruments whose segment files a spatial call needs.
SpatialInstruments(c) ==
    IF c.op = "find_overlapping_observations" THEN {c.args[1], c.args[3]}
    ELSE {c.args[1]}

\* C15: find_observations_of_latlon, find_overlapping_observations and
\* _get_seg_tree called for an instrument that has no segment table file or
\* no tree file raise an error and return nothing.
C15_NoSegmentFilesRaises ==
    (/\ call.op \in SpatialOps
     /\ \E i \in SpatialInstruments(call) : LacksSegmentFiles(i)) =>
        /\ call.status = "raised"
        /\ call.error \in {"AssertionError", "ValueError"}
        /\ call.result = <<>>

\* C15 witness: a call between an instrument with both files and one that
\* has a segment table but no tree file raised.
C15_Witness ==
    /\ call.op = "find_overlapping_observations"
    /\ ~LacksSegmentFiles(call.args[1])
    /\ call.args[3] \in DOMAIN fs
    /\ FileExists(fs[call.args[3]].segments)
    /\ ~FileExists(fs[call.args[3]].tree)
    /\ call.status = "raised"

(***************************************************************************)
(* Queries on the metadata table.                                          *)
(*                                                                         *)
(* The table has the columns of the test database, observation_id text    *)
(* and field1 real; a row is <<observation_id, field1>>.  An instrument   *)
(* can store several products under one observation id, and nothing keeps *)
(* two rows from being equal in every column.                              *)
(***************************************************************************)
MetaMaxRows == 3

MetaColumns == <<"observation_id", "field1">>

MetaRowPool ==
    {<<ObservationIds[1], 2>>, <<ObservationIds[1], 1>>,
     <<ObservationIds[2], 1>>, <<ObservationIds[2], 3>>}

MetaTables == SeqsUpTo(MetaRowPool, MetaMaxRows)

MetaInstruments == {"ctx", "moc"}

MetaCallInstruments == MetaInstruments \cup {"bad_instrument"}

\* The conditions callers hand to query: triples, a tuple that is too short,
\* a comparator outside the five, and a column the table does not have.
ConditionPool ==
    {<<"field1", "<", 3>>, <<"field1", ">=", 2>>,
     <<"observation_id", "=", ObservationIds[1]>>,
     <<"field1">>, <<"field1", "~", 1>>, <<"product_id", "=", 1>>}

MaxConditions == 2

\* The observation_ids argument: a str, or a list of str.
StrArgument(o) == [type |-> "str", str |-> o, list |-> <<>>]

ListArgument(ids) == [type |-> "list", str |-> "", list |-> ids]

MaxIds == 2

ObservationIdArguments ==
    {StrArgument(o) : o \in Range(ObservationIds)}
        \cup {ListArgument(ids) : ids \in SeqsUpTo(Range(ObservationIds), MaxIds)}

\* Python's order on the row tuples: by the first column, then the second;
\* the ids compare as strings.
RowLess(a, b) ==
    LET ra == CHOOSE k \in 1..Len(ObservationIds) : ObservationIds[k] = a[1]
        rb == CHOOSE k \in 1..Len(ObservationIds) : ObservationIds[k] = b[1]
    IN  ra < rb \/ (ra = rb /\ a[2] < b[2])

\* sorted(values) for a set of rows.
RECURSIVE sorted_rows(_)
sorted_rows(values) ==
    IF values = {} THEN <<>>
    ELSE LET least == CHOOSE v \in values :
                          \A w \in values \ {v} : RowLess(v, w)
         IN  <<least>> \o sorted_rows(values \ {least})

\* A variant of the result order of query_by_observation_id: the rows as the
\* table stores them.
stored_order(rows, values) == SelectSeq(rows, LAMBDA row : row \in values)

\* The order in which query_by_observation_id returns the rows it collected
\* from the table.
result_order(rows, values) == sorted_rows(values)

\* PdsMetadata(instrument, **dict(zip(names, v))).
MetadataOfRow(instrument, v) ==
    [instrument |-> instrument, observation_id |-> v[1], field1 |-> v[2]]

\* A variant of the validation in _query that looks at the first condition
\* only.
validate_first_only(conditions) ==
    IF conditions # <<>> /\ (IF Len(conditions[1]) # 3 THEN TRUE
                             ELSE conditions[1][2] \notin
                                      {"<", "=", ">", ">=", "<="})
    THEN "ValueError" ELSE "none"

\* The validation loop of _query over the conditions.
validate_conditions(conditions) ==
    IF \E k \in 1..Len(conditions) :
           IF Len(conditions[k]) # 3 THEN TRUE
           ELSE conditions[k][2] \notin {"<", "=", ">", ">=", "<="}
    THEN "ValueError" ELSE "none"

\* `for col, comp, val in conditions`: a tuple of another length cannot be
\* unpacked.
unpack_raises(conditions) ==
    IF \E k \in 1..Len(conditions) : Len(conditions[k]) # 3
    THEN "ValueError" ELSE "none"

\* cur.execute of the SELECT: SQLite rejects a column the table lacks and a
\* comparator it does not know.
execute_raises(conditions) ==
    IF \E k \in 1..Len(conditions) :
           \/ conditions[k][1] \notin Range(MetaColumns)
           \/ conditions[k][2] \notin {"<", "=", ">", ">=", "<="}
    THEN "OperationalError" ELSE "none"

\* col comp ? for one row.
condition_holds(row, t) ==
    LET rank(o) == CHOOSE k \in 1..Len(ObservationIds) : ObservationIds[k] = o
        x == IF t[1] = "observation_id" THEN rank(row[1]) ELSE row[2]
        y == IF t[1] = "observation_id" THEN rank(t[3]) ELSE t[3]
    IN  CASE t[2] = "<" -> x < y
          [] t[2] = "=" -> x = y
          [] t[2] = ">" -> x > y
          [] t[2] = ">=" -> x >= y
          [] OTHER -> x <= y

\* What a metadata call left behind: as for the spatial calls, with the
\* databases the call connected to and the connections that are open when it
\* ends.  `with sqlite3.connect(...) as conn` ends the transaction on exit and
\* leaves conn open; no close() is called.
MetaReturned(op, args, result, connected) ==
    call' = [op |-> op, args |-> args, status |-> "returned",
             error |-> "none", result |-> result, connected |-> connected,
             open |-> connected]

MetaRaised(op, args, error, connected) ==
    call' = [op |-> op, args |-> args, status |-> "raised",
             error |-> error, result |-> <<>>, connected |-> connected,
             open |-> connected]

\* A variant of the instrument test of query and query_by_observation_id
\* that lets every instrument through.
instrument_not_checked(instrument) == TRUE

\* instrument in self.instruments
instrument_found(instrument) == instrument \in client.instruments

\* PdsClient.query: list(self._query(instrument, conditions)).
query ==
    /\ client.state = "ready"
    /\ call = NoCall
    /\ \E instrument \in MetaCallInstruments,
          conditions \in SeqsUpTo(ConditionPool, MaxConditions) :
           LET op == "query"
               args == <<instrument, conditions>>
           IN  IF ~instrument_found(instrument)
               THEN MetaRaised(op, args, "ValueError", <<>>)
               ELSE IF validate_conditions(conditions) # "none"
               THEN MetaRaised(op, args, validate_conditions(conditions), <<>>)
               ELSE IF unpack_raises(conditions) # "none"
               THEN MetaRaised(op, args, unpack_raises(conditions), <<>>)
               ELSE IF instrument \notin client.instruments
               THEN MetaRaised(op, args, "KeyError", <<>>)
               ELSE IF execute_raises(conditions) # "none"
               THEN MetaRaised(op, args, execute_raises(conditions),
                               <<instrument>>)
               ELSE LET rows ==
                            SelectSeq(fs[instrument].metadata.rows,
                                LAMBDA row :
                                    \A k \in 1..Len(conditions) :
                                        condition_holds(row, conditions[k]))
                    IN  MetaReturned(op, args,
                            [k \in 1..Len(rows) |->
                                MetadataOfRow(instrument, rows[k])],
                            <<instrument>>)
    /\ UNCHANGED <<fs, ingest, hist, client>>

\* PdsClient.query_by_observation_id.
query_by_observation_id ==
    /\ client.state = "ready"
    /\ call = NoCall
    /\ \E instrument \in MetaCallInstruments,
          argument \in ObservationIdArguments :
           LET op == "query_by_observation_id"
               args == <<instrument, argument>>
               single_id == argument.type = "str"
               observation_ids == IF single_id THEN <<argument.str>>
                                  ELSE argument.list
           IN  IF ~instrument_found(instrument)
               THEN MetaRaised(op, args, "ValueError", <<>>)
               ELSE IF instrument \notin client.instruments
               THEN MetaRaised(op, args, "KeyError", <<>>)
               ELSE IF observation_ids = <<>>
               THEN \* no statement was executed: cur.description is None
                    MetaRaised(op, args, "TypeError", <<instrument>>)
               ELSE LET rows == fs[instrument].metadata.rows
                        values == {rows[k] : k \in
                                      {j \in 1..Len(rows) :
                                          rows[j][1] \in Range(observation_ids)}}
                        ordered == result_order(rows, values)
                    IN  MetaReturned(op, args,
                            [k \in 1..Len(ordered) |->
                                MetadataOfRow(instrument, ordered[k])],
                            <<instrument>>)
    /\ UNCHANGED <<fs, ingest, hist, client>>

\* A client built on a directory in which store_metadata wrote the metadata
\* database of ctx; moc has no metadata database.
MetaInit ==
    /\ \E table \in MetaTables :
           fs = [i \in MetaInstruments |->
                    [metadata |-> IF i = "ctx"
                                  THEN insert_rows(create_table(EmptyDb), table)
                                  ELSE Absent,
                     segments |-> Absent,
                     tree |-> Absent]]
    /\ ingest = IdleIngest("ctx")
    /\ hist = NoHist
    /\ client = PdsClient(fs)
    /\ call = NoCall

MetaNext ==
    \/ query
    \/ query_by_observation_id
    \/ caller_continues

SpecMeta == MetaInit /\ [][MetaNext]_vars

\* C16: query and query_by_observation_id called with an instrument that is
\* not among the client's instruments raise ValueError, return no record and
\* have connected to no database.
C16_UnknownInstrumentRaises ==
    (/\ call.op \in {"query", "query_by_observation_id"}
     /\ call.args[1] \notin client.instruments) =>
        /\ call.status = "raised"
        /\ call.error = "ValueError"
        /\ call.result = <<>>
        /\ call.connected = <<>>

\* C16 witness: a call for an instrument the client does not know raised,
\* with an observation id that rows of ctx are stored under.
C16_Witness ==
    /\ call.op = "query_by_observation_id"
    /\ call.args[1] \in {"moc", "bad_instrument"}
    /\ call.args[2] = StrArgument(ObservationIds[1])
    /\ \E k \in 1..Len(fs["ctx"].metadata.rows) :
           fs["ctx"].metadata.rows[k][1] = ObservationIds[1]
    /\ call.status = "raised"

\* A condition is not a triple, or its comparator is not one of the five.
IllFormed(t) ==
    IF Len(t) # 3 THEN TRUE ELSE t[2] \notin {"=", "<", ">", "<=", ">="}

\* C17: query with an ill-formed condition anywhere in the list raises
\* ValueError, returns no record and has connected to no database: the
\* conditions are all validated before the statement is executed.
C17_IllFormedConditionRaises ==
    (/\ call.op = "query"
     /\ \E k \in 1..Len(call.args[2]) : IllFormed(call.args[2][k])) =>
        /\ call.status = "raised"
        /\ call.error = "ValueError"
        /\ call.result = <<>>
        /\ call.connected = <<>>

\* C17 witness: a query on a known instrument raised for a bad comparator
\* that came second, after a well-formed condition that rows of the table
\* satisfy.
C17_Witness ==
    /\ call.op = "query"
    /\ call.args[1] \in client.instruments
    /\ Len(call.args[2]) = 2
    /\ ~IllFormed(call.args[2][1])
    /\ call.args[2][1][1] \in Range(MetaColumns)
    /\ \E k \in 1..Len(fs[call.args[1]].metadata.rows) :
           condition_holds(fs[call.args[1]].metadata.rows[k], call.args[2][1])
    /\ call.args[2][2] = <<"field1", "~", 1>>
    /\ call.status = "raised"

\* The ids a call of query_by_observation_id was given.
GivenIds(argument) ==
    IF argument.type = "str" THEN {argument.str} ELSE Range(argument.list)

\* The positions of the stored rows of the instrument whose observation_id
\* is one of the given ids.
MatchingPositions(instrument, argument) ==
    {k \in 1..Len(fs[instrument].metadata.rows) :
        fs[instrument].metadata.rows[k][1] \in GivenIds(argument)}

\* C18: query_by_observation_id on a known instrument returns all and only
\* the stored rows whose observation_id is one of the given ids, a single
\* string counting as the collection of that one id, and each stored row
\* with a matching id once: the result has one record per matching row of
\* the table.
C18_AllMatchingRowsOnce ==
    (/\ call.op = "query_by_observation_id"
     /\ call.args[1] \in client.instruments) =>
        LET instrument == call.args[1]
            rows == fs[instrument].metadata.rows
            matching == MatchingPositions(instrument, call.args[2])
        IN  /\ call.status = "returned"
            /\ Range(call.result) =
                   {MetadataOfRow(instrument, rows[k]) : k \in matching}
            /\ Len(call.result) = Cardinality(matching)

\* The rows of the records of a result.
ResultRows(result) ==
    [k \in 1..Len(result) |-> <<result[k].observation_id, result[k].field1>>]

\* Where the table first stores a row.
StoredAt(rows, row) == SetMin({k \in 1..Len(rows) : rows[k] = row})

\* C19 as stated: the records query_by_observation_id returns come in the
\* order in which the table stores their rows.
C19_StoredOrder ==
    (call.op = "query_by_observation_id" /\ call.status = "returned") =>
        LET rows == fs[call.args[1]].metadata.rows
            result == ResultRows(call.result)
        IN  \A i, j \in 1..Len(result) :
                i < j => StoredAt(rows, result[i]) < StoredAt(rows, result[j])

\* C19: the records query_by_observation_id returns come in ascending order
\* of their rows (by the first column, then by the next), whatever the
\* order in which the table stores them.
C19_SortedByRow ==
    (call.op = "query_by_observation_id" /\ call.status = "returned") =>
        LET result == ResultRows(call.result)
        IN  \A i, j \in 1..Len(result) : i < j => RowLess(result[i], result[j])

\* C19 witness: a call returned two rows that the table stores the other
\* way round.
C19_Witness ==
    /\ call.op = "query_by_observation_id"
    /\ call.status = "returned"
    /\ Len(call.result) >= 2
    /\ LET rows == fs[call.args[1]].metadata.rows
           result == ResultRows(call.result)
       IN  \E i, j \in 1..Len(rows) :
               /\ i < j
               /\ rows[i] = result[2]
               /\ rows[j] = result[1]

(***************************************************************************)
(* The geometry of one segment, called directly.                           *)
(*                                                                         *)
(* TriSegment takes any three points; is_inside and distance_to_point take *)
(* any vector.  The segments are those of the footprints and segments with *)
(* two vertices in the same place, with two vertices opposite each other,  *)
(* and with three different vertices on one great circle.                  *)
(***************************************************************************)
DegenerateSegments ==
    {TriSegment(<<3, 0, 0>>, <<3, 0, 0>>, <<0, 3, 0>>),
     TriSegment(<<2, 2, 1>>, <<2, 2, 1>>, <<2, 2, 1>>),
     TriSegment(<<3, 0, 0>>, <<0, 3, 0>>, <<-3, 0, 0>>),
     TriSegment(<<2, 2, 1>>, <<2, 2, -1>>, <<0, 0, 3>>)}

GeomSegments == SegmentPool \cup DegenerateSegments

GeomPoints == QueryPoints \cup {Zero3, <<-2, -1, 2>>}

\* TriSegment.normals: no error; a row is NaN or a unit vector.
TriSegment_normals ==
    /\ client.state = "segment"
    /\ call = NoCall
    /\ Returned("normals", <<>>,
                [i \in 1..3 |-> IF normal_is_nan(client.segment, i)
                                THEN "nan" ELSE "unit"])
    /\ UNCHANGED <<fs, ingest, hist, client>>

\* TriSegment.is_inside(xyz).
TriSegment_is_inside ==
    /\ client.state = "segment"
    /\ call = NoCall
    /\ \E xyz \in GeomPoints :
           Returned("is_inside", <<xyz>>, <<is_inside(client.segment, xyz)>>)
    /\ UNCHANGED <<fs, ingest, hist, client>>

\* TriSegment.distance_to_point(xyz).
TriSegment_distance_to_point ==
    /\ client.state = "segment"
    /\ call = NoCall
    /\ \E xyz \in GeomPoints :
           IF distance_to_point_raises(client.segment, xyz) # "none"
           THEN Raised("distance_to_point", <<xyz>>,
                       distance_to_point_raises(client.segment, xyz))
           ELSE Returned("distance_to_point", <<xyz>>,
                         <<distance_to_point(client.segment, xyz)>>)
    /\ UNCHANGED <<fs, ingest, hist, client>>

\* TriSegment.center(): xyz2latlon of the mean of the vertices.
TriSegment_center ==
    /\ client.state = "segment"
    /\ call = NoCall
    /\ IF center_raises(client.segment)
       THEN Raised("center", <<>>, "ValueError")
       ELSE Returned("center", <<>>, <<center(client.segment)>>)
    /\ UNCHANGED <<fs, ingest, hist, client>>

GeomInit ==
    /\ fs = [i \in {} |-> Absent]
    /\ ingest = IdleIngest("ctx")
    /\ hist = NoHist
    /\ \E s \in GeomSegments : client = [state |-> "segment", segment |-> s]
    /\ call = NoCall

GeomNext ==
    \/ TriSegment_normals
    \/ TriSegment_is_inside
    \/ TriSegment_distance_to_point
    \/ TriSegment_center
    \/ caller_continues

SpecGeom == GeomInit /\ [][GeomNext]_vars

\* Two vertices of the segment are in the same place or opposite each other:
\* a row of normals is NaN.
HasNanNormal(s) == \E i \in 1..3 : normal_is_nan(s, i)

\* The vertices lie on one great circle: the triangle has no area.
Degenerate(s) == dot(s[1], cross(s[2], s[3])) = 0

FootprintLengths == {0, 50, 100, 120}

FootprintWidths == {0, 50, 90, 100}

FootprintResolutions == {40, 50, 100}

PixelRows == 100

PixelCols == 50

FootprintLocalizers ==
    [observation_length_m : FootprintLengths,
     observation_width_m : FootprintWidths,
     n_rows : {PixelRows}, n_cols : {PixelCols},
     flight_direction : {1, -1}]

\* A variant of the number of chunks that rounds down.
n_chunks_floor(length_m, resolution) == length_m \div resolution

\* int(np.ceil(length_m / resolution)), for a positive resolution.
n_chunks(length_m, resolution) == (length_m + resolution - 1) \div resolution

\* np.linspace(0, stop, num): num evenly spaced values from 0 to stop; the
\* single value 0 for num = 1.
linspace(stop, num) ==
    [j \in 1..num |->
        IF num = 1 THEN <<0, 1>>
        ELSE LET a == (j - 1) * stop
                 g == Gcd(a, num - 1)
             IN  <<a \div g, (num - 1) \div g>>]

\* A variant of np.meshgrid with indexing='ij': the first index runs over x.
meshgrid_ij(x, y) ==
    [xx |-> [i \in 1..Len(x) |-> [j \in 1..Len(y) |-> x[i]]],
     yy |-> [i \in 1..Len(x) |-> [j \in 1..Len(y) |-> y[j]]]]

\* np.meshgrid(x, y) with the default indexing='xy': both arrays have
\* len(y) rows and len(x) columns, xx[i, j] = x[j] and yy[i, j] = y[i].
meshgrid(x, y) ==
    [xx |-> [i \in 1..Len(y) |-> [j \in 1..Len(x) |-> x[j]]],
     yy |-> [i \in 1..Len(y) |-> [j \in 1..Len(x) |-> y[i]]]]

\* localizer.pixel_to_latlon(row, col).
pixel_to_latlon(row, col) == [row |-> row, col |-> col]

\* SegmentedFootprint.__init__: the latlon_grid of a localizer at a
\* resolution.
latlon_grid(localizer, resolution) ==
    LET n_row_chunks == n_chunks(localizer.observation_length_m, resolution)
        n_col_chunks == n_chunks(localizer.observation_width_m, resolution)
        row_idx == linspace(localizer.n_rows, n_row_chunks + 1)
        col_idx == linspace(localizer.n_cols, n_col_chunks + 1)
        grid == meshgrid(row_idx, col_idx)
    IN  [i \in 1..Len(grid.xx) |->
            [j \in 1..Len(grid.xx[1]) |->
                pixel_to_latlon(grid.xx[i][j], grid.yy[i][j])]]

\* TriSegmentedFootprint(metadata, resolution, {}) for a record with the
\* given localizer.
TriSegmentedFootprint_init ==
    /\ client.state = "footprint"
    /\ call = NoCall
    /\ \E resolution \in FootprintResolutions :
           LET L == latlon_grid(client.localizer, resolution)
           IN  Returned("TriSegmentedFootprint", <<resolution>>,
                   [latlon_grid |-> L,
                    segments |-> footprint_segments(
                                     L, client.localizer.flight_direction)])
    /\ UNCHANGED <<fs, ingest, hist, client>>

FootprintInit ==
    /\ fs = [i \in {} |-> Absent]
    /\ ingest = IdleIngest("ctx")
    /\ hist = NoHist
    /\ \E localizer \in FootprintLocalizers :
           client = [state |-> "footprint", localizer |-> localizer]
    /\ call = NoCall

FootprintNext ==
    \/ TriSegmentedFootprint_init
    \/ caller_continues

SpecFootprint == FootprintInit /\ [][FootprintNext]_vars

\* The least whole number of steps of size s that cover the length x.
CeilOf(x, s) == CHOOSE k \in 0..x : k * s >= x /\ (k = 0 \/ (k - 1) * s < x)

\* The points of a grid.
GridPoints(L) == {L[i][j] : i \in 1..Len(L), j \in 1..Len(L[1])}

\* C21: TriSegmentedFootprint emits 2 * ceil(L / s) * ceil(W / s) segments
\* for an observation of length L and width W at resolution s, on a grid of
\* (ceil(L / s) + 1) * (ceil(W / s) + 1) different points.
C21_SegmentCount ==
    (call.op = "TriSegmentedFootprint" /\ call.status = "returned") =>
        LET rows == CeilOf(client.localizer.observation_length_m, call.args[1])
            cols == CeilOf(client.localizer.observation_width_m, call.args[1])
        IN  /\ Len(call.result.segments) = 2 * rows * cols
            /\ Cardinality(GridPoints(call.result.latlon_grid))
                   = (rows + 1) * (cols + 1)

\* C21 witness: a footprint whose length and width are not multiples of the
\* resolution: 3 by 2 cells, 12 segments.
C21_Witness ==
    /\ call.op = "TriSegmentedFootprint"
    /\ call.status = "returned"
    /\ client.localizer.observation_length_m % call.args[1] # 0
    /\ client.localizer.observation_width_m % call.args[1] # 0
    /\ Len(call.result.segments) = 12

\* The two triangles of the cell at indices r and c of a grid P, counted
\* from 0, for a flight direction.
CellTriangles(P(_, _), r, c, flight_direction) ==
    IF flight_direction > 0
    THEN {TriSegment(P(r, c), P(r, c + 1), P(r + 1, c)),
          TriSegment(P(r + 1, c + 1), P(r + 1, c), P(r, c + 1))}
    ELSE {TriSegment(P(r, c), P(r + 1, c), P(r, c + 1)),
          TriSegment(P(r + 1, c + 1), P(r, c + 1), P(r + 1, c))}

\* The pixel coordinates of the grid: row_idx and col_idx.
RowIdx(c) ==
    linspace(client.localizer.n_rows,
             CeilOf(client.localizer.observation_length_m, c.args[1]) + 1)

ColIdx(c) ==
    linspace(client.localizer.n_cols,
             CeilOf(client.localizer.observation_width_m, c.args[1]) + 1)

\* C25 as stated: the triangles emitted are those of the cells at grid row
\* r and grid column c, where L[r, c] is the lat/lon of the grid point at
\* pixel-row index r and pixel-column index c of a grid with n_rows_cells + 1
\* rows and n_cols_cells + 1 columns.
C25_RowsFirst ==
    (call.op = "TriSegmentedFootprint" /\ call.status = "returned") =>
        LET P(r, c) == pixel_to_latlon(RowIdx(call)[r + 1], ColIdx(call)[c + 1])
        IN  Range(call.result.segments) =
                UNION {CellTriangles(P, r, c,
                                     client.localizer.flight_direction) :
                          r \in 0..(Len(RowIdx(call)) - 2),
                          c \in 0..(Len(ColIdx(call)) - 2)}

\* C25: the triangles emitted are those of the cells at first index r and
\* second index c of L, where L[r, c] is the lat/lon of the grid point at
\* pixel-column index r and pixel-row index c: L has n_cols_cells + 1 entries
\* along its first index and n_rows_cells + 1 along its second, and the cells
\* come with c in the outer loop and r in the inner one.
C25_ColumnsFirst ==
    (call.op = "TriSegmentedFootprint" /\ call.status = "returned") =>
        LET P(r, c) == pixel_to_latlon(RowIdx(call)[c + 1], ColIdx(call)[r + 1])
            L == call.result.latlon_grid
            n0 == Len(ColIdx(call)) - 1
            n1 == Len(RowIdx(call)) - 1
            segments == call.result.segments
        IN  /\ Len(L) = n0 + 1 /\ Len(L[1]) = n1 + 1
            /\ \A r \in 0..n0, c \in 0..n1 : L[r + 1][c + 1] = P(r, c)
            /\ Len(segments) = 2 * n0 * n1
            /\ \A r \in 0..(n0 - 1), c \in 0..(n1 - 1) :
                   LET k == 2 * (c * n0 + r)
                   IN  {segments[k + 1], segments[k + 2]} =
                           CellTriangles(P, r, c,
                                         client.localizer.flight_direction)
            /\ \A r \in 0..(n0 - 1), c \in 0..(n1 - 1) :
                   LET k == 2 * (c * n0 + r)
                   IN  segments[k + 1][1] = P(r, c)

\* C25 witness: a footprint of 3 cells along the pixel rows and 2 along the
\* pixel columns.
C25_Witness ==
    /\ call.op = "TriSegmentedFootprint"
    /\ call.status = "returned"
    /\ Len(RowIdx(call)) = 4
    /\ Len(ColIdx(call)) = 3
    /\ Len(call.result.segments) = 12

(***************************************************************************)
(* Overlap within one instrument                                           *)
(***************************************************************************)

\* A footprint around the direction (3, -2, 1), one cell.
GridEast == <<<< <<2, -1, 2>>, <<2, -2, 1>> >>, << <<3, 0, 0>>, <<1, -2, -2>> >>>>

\* A footprint around the direction (0, -2, -3), one cell; it shares no grid
\* point with GridEast.
GridSouth ==
    <<<< <<2, 1, -2>>, <<-1, -2, -2>> >>, << <<0, 0, -3>>, <<0, -3, 0>> >>>>

\* GridNear with one more cell along the second index.
GridStrip ==
    <<<< <<3, 0, 0>>, <<2, 2, 1>>, <<0, 3, 0>> >>,
      << <<2, 1, 2>>, <<1, 2, 2>>, <<-1, 2, 2>> >>>>

\* The records of a cumulative index whose footprints reach over a large part
\* of the body.
OverlapRecords(instrument) ==
    {PdsMetadata(instrument, ObservationIds[1], Localizer("none", 1, GridEast)),
     PdsMetadata(instrument, ObservationIds[2], Localizer("none", 1, GridSouth)),
     PdsMetadata(instrument, ObservationIds[3], Localizer("none", 1, GridStrip))}

\* The client is pointed at a directory that ingest_idx filled from such an
\* index for ctx, and for moc from the one observation GridNext.
OverlapInit ==
    /\ \E ctx \in SeqsUpTo(OverlapRecords("ctx"), MaxRecords) :
           fs = [i \in QueryInstruments |->
                    ingest_idx(i, IF i = "ctx" THEN ctx
                                  ELSE <<PdsMetadata(
                                           i, ObservationIds[2],
                                           Localizer("none", -1, GridNext))>>)]
    /\ ingest = IdleIngest("ctx")
    /\ hist = NoHist
    /\ client = NoClient
    /\ call = NoCall

SpecOverlap == OverlapInit /\ [][QueryNext]_vars

\* What find_overlapping_observations(i, a, i) ends with on the artifacts of
\* instrument i.
OverlapsWithin(i, a) ==
    overlapping_observations_with(fs[i].tree.tree, i, a, i)

\* The observation ids the segment table of instrument i has rows for.
ObservationsOf(i) ==
    {fs[i].segments.rows[k][2] : k \in 1..Len(fs[i].segments.rows)}

\* C22: for the observations a and b of an instrument i, b is in
\* find_overlapping_observations(i, a, i) if and only if a is in
\* find_overlapping_observations(i, b, i).
C22_OverlapSymmetric ==
    (/\ call.op = "find_overlapping_observations"
     /\ call.status = "returned"
     /\ call.args[1] = call.args[3]) =>
        LET i == call.args[1]
            a == call.args[2]
        IN  \A b \in ObservationsOf(i) :
                (a \in ObservationsOf(i)) =>
                    /\ OverlapsWithin(i, b).status = "returned"
                    /\ (b \in Range(call.result)) <=>
                           (a \in Range(OverlapsWithin(i, b).result))

(***************************************************************************)
(* Distance from a segment to a point                                      *)
(***************************************************************************)

\* C23: if s.is_inside(p) holds then s.distance_to_point(p) returns 0.
C23_InsideIsAtDistanceZero ==
    (/\ call.op = "distance_to_point"
     /\ is_inside(client.segment, call.args[1])) =>
        /\ call.status = "returned"
        /\ call.result = <<0>>

\* C23 witness: distance_to_point returned for a point inside the segment
\* that is none of its vertices.
C23_Witness ==
    /\ call.op = "distance_to_point"
    /\ call.status = "returned"
    /\ is_inside(client.segment, call.args[1])
    /\ call.args[1] # Zero3
    /\ call.args[1] \notin Range(client.segment)

(***************************************************************************)
(* Which candidates decide an observation                                  *)
(***************************************************************************)

\* The candidates of a returned find_observations_of_latlon call, in
\* ascending or descending order of segment id.
CandidatesOf(c, descending) ==
    LET point == PointQuery(c.args[2], c.args[3])
        idx == index_array(query_point(fs[c.args[1]].tree.tree, point),
                           descending)
    IN  _query_segments(fs[c.args[1]].segments.rows, idx,
                        [raises |-> "none", segments |-> <<>>]).segments

\* The observation ids whose first candidate in the list includes the point.
FirstHitOnly(segments, point) ==
    {segments[k][1] : k \in {j \in 1..Len(segments) :
        /\ \A h \in 1..(j - 1) : segments[h][1] # segments[j][1]
        /\ includes_point(segments[j][2], point)}}

\* The observation ids some candidate of which includes the point.
AnyHit(segments, point) ==
    {segments[k][1] : k \in {j \in 1..Len(segments) :
                                includes_point(segments[j][2], point)}}

\* C24 as stated: an observation id is in the result of
\* find_observations_of_latlon if and only if the first of its segments among
\* the tree's candidates includes the point, in one of the orders the tree
\* hands the candidates out.
C24_FirstHitDecides ==
    (call.op = "find_observations_of_latlon" /\ call.status = "returned") =>
        \E descending \in BOOLEAN :
            Range(call.result) =
                FirstHitOnly(CandidatesOf(call, descending),
                             PointQuery(call.args[2], call.args[3]))

\* The positions of the candidate list at which the loop evaluates
\* includes_point: those whose observation id the loop has not accepted on
\* the candidates before.
Consulted(segments, point) ==
    {j \in 1..Len(segments) :
        segments[j][1] \notin
            observations_of_latlon(SubSeq(segments, 1, j - 1), point, {})}

\* C24: an observation id is in the result of find_observations_of_latlon if
\* and only if some candidate segment of it includes the point, whatever the
\* order of the candidates; the loop consults the candidates of an
\* observation up to the first one that includes the point and skips the
\* ones after it.
C24_AnyHitDecides ==
    (call.op = "find_observations_of_latlon" /\ call.status = "returned") =>
        \A descending \in BOOLEAN :
            LET segments == CandidatesOf(call, descending)
                point == PointQuery(call.args[2], call.args[3])
            IN  /\ Range(call.result) = AnyHit(segments, point)
                /\ Consulted(segments, point) =
                       {j \in 1..Len(segments) :
                           \A h \in 1..(j - 1) :
                               segments[h][1] = segments[j][1] =>
                                   ~includes_point(segments[h][2], point)}

\* C24 witness: a call returned an observation whose first candidate does not
\* include the point, in either order of the candidates.
C24_Witness ==
    /\ call.op = "find_observations_of_latlon"
    /\ call.status = "returned"
    /\ \E o \in Range(call.result) :
           \A descending \in BOOLEAN :
               o \notin FirstHitOnly(CandidatesOf(call, descending),
                                     PointQuery(call.args[2], call.args[3]))

(***************************************************************************)
(* The lifetime of the database connections                                *)
(*                                                                         *)
(* A connection is closed when the interpreter finalises the connection    *)
(* object, some time after the last reference to it has gone: the frame of *)
(* the call, or the traceback of the exception it raised.                  *)
(***************************************************************************)
Connection_dealloc ==
    /\ call.op \in {"query", "query_by_observation_id"}
    /\ call.open # <<>>
    /\ call' = [call EXCEPT !.open = <<>>]
    /\ UNCHANGED <<fs, ingest, hist, client>>

ConnectionsNext ==
    \/ query
    \/ query_by_observation_id
    \/ Connection_dealloc
    \/ caller_continues

SpecConnections == MetaInit /\ [][ConnectionsNext]_vars

\* C26: after query or query_by_observation_id has returned or raised, no
\* connection the call opened is still open.
C26_ConnectionsReleased ==
    (call.op \in {"query", "query_by_observation_id"}) => call.open = <<>>

(***************************************************************************)
(* The points distance_to_point measures to                                *)
(***************************************************************************)

\* The projections of xyz on the planes of the edges of s that are a point of
\* the sphere inside s.
InsideProjections(s, xyz) ==
    {projection(s, i, xyz) : i \in
        {j \in 1..3 : /\ ~normal_is_nan(s, j)
                      /\ projection(s, j, xyz) # Zero3
                      /\ is_inside(s, projection(s, j, xyz))}}

\* The least distance from xyz to a point of P.
NearestOf(xyz, P) == SetMin({geodesic_distance(xyz, p, MARS_RADIUS_M) : p \in P})

\* C27: for a point outside the segment, distance_to_point is the
\* least distance to the three vertices and to every projection that lies
\* inside the segment.
C27_EveryInsideProjection ==
    (/\ call.op = "distance_to_point"
     /\ call.status = "returned"
     /\ ~is_inside(client.segment, call.args[1])) =>
        call.result =
            <<NearestOf(call.args[1],
                        Range(client.segment)
                        \cup InsideProjections(client.segment, call.args[1]))>>

(***************************************************************************)
(* The dictionaries of a client                                            *)
(***************************************************************************)

\* C28: in every state of a client the instruments with a segment-table
\* path, with a tree-file path and with a tree-cache entry are the same, are
\* instruments found from the metadata databases, and are those of them
\* whose segment database and segment-tree file both exist in the directory
\* the client was constructed on.
C28_SpatialKeySets ==
    (client.state = "ready") =>
        /\ client.seg_files = client.seg_tree_files
        /\ client.seg_tree_files = DOMAIN client.seg_trees
        /\ client.seg_files \subseteq client.instruments
        /\ \A i \in client.instruments :
               (i \in client.seg_files) <=>
                   /\ FileExists(fs[i].segments)
                   /\ FileExists(fs[i].tree)

\* C28 witness: a client on a directory with an instrument that has both
\* files and one that has a segment database and no tree file, after a
\* spatial call has loaded a tree.
C28_Witness ==
    /\ client.state = "ready"
    /\ \E i \in client.seg_files : client.seg_trees[i].loaded
    /\ \E i \in client.instruments :
           FileExists(fs[i].segments) /\ ~FileExists(fs[i].tree)

(***************************************************************************)
(* The tree's segment ids and the rows of the segment table                *)
(***************************************************************************)

\* C29: a spatial query of a client constructed after ingest_idx ran never
\* fails the assertion 'row is not None' of _query_segments: on instruments
\* the client has segment files for, find_observations_of_latlon and
\* find_overlapping_observations do not raise AssertionError, and every
\* segment id of such an instrument's tree has a row in its segment table.
C29_EveryTreeIdHasRow ==
    /\ (/\ call.op = "find_observations_of_latlon"
        /\ call.args[1] \in call.before.seg_files) =>
           ~(call.status = "raised" /\ call.error = "AssertionError")
    /\ (/\ call.op = "find_overlapping_observations"
        /\ {call.args[1], call.args[3]} \subseteq call.before.seg_files) =>
           ~(call.status = "raised" /\ call.error = "AssertionError")
    /\ (client.state = "ready") =>
           \A i \in client.seg_files :
               \A id \in 0..(Len(fs[i].tree.tree.data) - 1) :
                   fetchone(fs[i].segments.rows, id) # <<>>

(***************************************************************************)
(* The body radius in store_segments and store_segment_tree                *)
(***************************************************************************)

\* The positions of an ingest_idx run at which store_segments has segmented
\* the records.
Segmented == {"ss_remove", "ss_create", "ss_insert", "st_build", "st_open",
              "st_dump", "done"}

\* C30: the records whose segments store_segments persists, and whether the
\* construction of the tree succeeds on them, are the same with the radius
\* of the Moon as with the radius of Mars.
C30_RadiusIsOnlyARadius ==
    (ingest.pc \in Segmented) =>
        LET other_radius == IF ingest.body_radius = MARS_RADIUS_M
                            THEN MOON_RADIUS_M ELSE MARS_RADIUS_M
            other == segment_records(ingest.metadata, other_radius)
        IN  /\ other.raises = "none"
            /\ other.observation_ids = ingest.observation_ids
            /\ other.segments = ingest.segments
            /\ (store_segment_tree_raises(other.segments, other_radius) = "none")
                   <=> (store_segment_tree_raises(ingest.segments,
                                                  ingest.body_radius) = "none")

====
